---- MODULE Spec2Model ----
(***************************************************************************)
(* Contour selection, contour filtering, city ranking and intensity lookup *)
(* of PostEventSummary (bin/PDFCreate.py, bin/ShakeAlertParser.py,         *)
(* bin/PyCities.py, bin/EQCalculations.py).                                *)
(*                                                                         *)
(* Magnitudes are kept in tenths (5.0 is 50).  Distances are whole         *)
(* kilometres.  A coordinate field of a polygon string is a pair           *)
(* <<value, spelling>>: two spellings of one number ("1" and "1.0") are    *)
(* different strings that float() maps to the same value.                  *)
(***************************************************************************)
EXTENDS Integers, Sequences, FiniteSets, TLC

VARIABLES
    \* ---- GMContourFilter (PDFCreate.py) ----
    flt,            \* the filter object: mag_threshold, min_mmi_small_event, min_mmi_large_event
    arg_contours,   \* the list as the caller passed it
    gm_contours,    \* the caller's list object, as it is after the call
    event_mag,      \* the event_mag argument
    filtered,       \* the returned list
    flt_pc          \* "idle" | "call" | "done"

VARIABLES
    \* ---- PyCities.getCityList and the city part of finalizeShakeAlertValues ----
    catalog,        \* PyCities.cities in scan (insertion) order; the name of a city is its position
    categories,     \* the categories argument of the getCityList call under study
    city_result,    \* what that call returned (or the error it raised)
    cl_pc,          \* "idle" | "call" | "done"
    closest_cities, \* finalizeShakeAlertValues: the dict closest_cities, in insertion order
    first_cities,   \* the dict returned by the first getCityList call of the run
    selected,       \* the dict closest_cities as it enters the re-ordering loop
    city_keys,      \* the list city_keys of the re-ordering loop
    calls,          \* number of getCityList calls made by the run
    fin_pc          \* "idle" | "load" | "select" | "promote" | "sort" | "store" | "done" | "error"

VARIABLES
    \* ---- ShakeAlertParser.ParseJSONContent ----
    MMItoUse,       \* the module-level global MMItoUse
    msg,            \* the event record being parsed
    JSONValues,     \* what ParseJSONContent returned for it (or the error it raised)
    nparsed,        \* number of events this process has parsed
    parse_pc        \* "idle" | "loaded" | "returned" | "raised"

VARIABLES
    \* ---- EQCalculations.getIntensityLevel ----
    arg_MMIlist,        \* argument: [MMIval, polygon string] pairs
    point,          \* arguments lat, lon
    getRomanNum,    \* argument
    intensity,      \* the value returned
    int_pc          \* "idle" | "call" | "done"

VARIABLES
    \* ---- one call of a function of EQCalculations, PyCities or PyEventImage ----
    call_args,      \* the arguments
    call_ret,       \* the value returned, or the error raised
    call_pc         \* "idle" | "call" | "done"

callVars == <<call_args, call_ret, call_pc>>
intVars == <<arg_MMIlist, point, getRomanNum, intensity, int_pc>>
parseVars == <<MMItoUse, msg, JSONValues, nparsed, parse_pc>>
fltVars == <<flt, arg_contours, gm_contours, event_mag, filtered, flt_pc>>
clVars == <<categories, city_result, cl_pc>>
finVars == <<closest_cities, first_cities, selected, city_keys, calls, fin_pc>>

vars == <<fltVars, catalog, clVars, finVars, parseVars, intVars, callVars>>

\* What the steps of one component leave alone: the state of the others.
FltFrame == <<catalog, clVars, finVars, parseVars, intVars, callVars>>
ClFrame == <<fltVars, finVars, parseVars, intVars, callVars>>
FinFrame == <<fltVars, clVars, parseVars, intVars, callVars>>
ParseFrame == <<fltVars, catalog, clVars, finVars, intVars, callVars>>
IntFrame == <<fltVars, catalog, clVars, finVars, parseVars, callVars>>
CallFrame == <<fltVars, catalog, clVars, finVars, parseVars, intVars>>

-----------------------------------------------------------------------------
(* Configuration, params/PostEventSummaryProperties.cfg [THRESHOLDS] *)

MagMapChange == 50
MMISmall == 3
MMIAlert == 4

(* Bounds of the model *)

MaxContours == 2
MaxCatalog == 5
MaxDist == 2
MaxListed == 4
MaxListDist == 3
MaxEvents == 2
MaxPolygons == 2
MaxVertices == 4
MaxStations == 3
Precision == 10
FracBits == 11

-----------------------------------------------------------------------------
(* Generic helpers *)

SeqsUpTo(S, n) == UNION { [1..k -> S] : k \in 0..n }

Range(s) == { s[i] : i \in 1..Len(s) }

-----------------------------------------------------------------------------
(* GMContourFilter *)

FilterMMIs == 2..5
FilterMags == {49, 50, 51}
FilterContours == [mmi : FilterMMIs, polygon : {"P", "Q"}]
FilterConfigs ==
    { [mag_threshold |-> MagMapChange, min_mmi_small_event |-> s, min_mmi_large_event |-> l] :
        s \in {MMISmall, MMIAlert}, l \in {MMISmall, MMIAlert, MMIAlert + 1} }

meets_contour_criteria_strict(f, gm_contour, mag) ==
    IF mag >= f.mag_threshold
    THEN gm_contour.mmi > f.min_mmi_large_event
    ELSE gm_contour.mmi >= f.min_mmi_small_event

meets_contour_criteria(f, gm_contour, mag) ==
    IF mag >= f.mag_threshold
    THEN gm_contour.mmi >= f.min_mmi_large_event
    ELSE gm_contour.mmi >= f.min_mmi_small_event

RECURSIVE filter_loop(_, _, _, _, _)
filter_loop(f, contours, mag, i, temp) ==
    IF i > Len(contours) THEN temp
    ELSE filter_loop(f, contours, mag, i + 1,
                     IF meets_contour_criteria(f, contours[i], mag)
                     THEN Append(temp, contours[i])
                     ELSE temp)

filter_gm_contours(f, contours, mag) == filter_loop(f, contours, mag, 1, <<>>)

InitFilter ==
    /\ flt \in FilterConfigs
    /\ arg_contours \in SeqsUpTo(FilterContours, MaxContours)
    /\ gm_contours = arg_contours
    /\ event_mag \in FilterMags
    /\ filtered = <<>>
    /\ flt_pc = "call"

FilterGmContours ==
    /\ flt_pc = "call"
    /\ filtered' = filter_gm_contours(flt, gm_contours, event_mag)
    /\ gm_contours' = gm_contours
    /\ flt_pc' = "done"
    /\ UNCHANGED <<flt, arg_contours, event_mag>>
    /\ UNCHANGED FltFrame

IdleFilter ==
    /\ flt = [mag_threshold |-> MagMapChange, min_mmi_small_event |-> MMISmall,
              min_mmi_large_event |-> MMIAlert]
    /\ arg_contours = <<>>
    /\ gm_contours = <<>>
    /\ event_mag = 0
    /\ filtered = <<>>
    /\ flt_pc = "idle"


-----------------------------------------------------------------------------
(* PyCities.getCityList *)

None == 0
NoDistance == 1000000
KeyError == [ok |-> FALSE, error |-> "KeyError", cities |-> <<>>]

CityCategories == {"A", "B", "C"}
CityKinds(d) == [category : CityCategories, dist : 1..d]

\* distanceBetween(lat, lon, values['lat'], values['lon']): the reference point is
\* fixed during a run, so each catalog entry carries its distance to it.
distanceBetween(values) == values.dist

\* No city is excluded from a slot.
excluded_never(cats, nearest_cities, index, city) == FALSE

excluded(cats, nearest_cities, index, city) ==
    \E i \in 1..(index - 1) : cats[i] = cats[index] /\ nearest_cities[i] = city

\* One pass of the inner loop body (PyCities.py 43-54) for slot `index`.
scan_slot(cats, city, values, index, st) ==
    IF /\ cats[index] = values.category
       /\ distanceBetween(values) < st.distances[index]
       /\ ~excluded(cats, st.nearest_cities, index, city)
    THEN [nearest_cities |-> [st.nearest_cities EXCEPT ![index] = city],
          distances |-> [st.distances EXCEPT ![index] = distanceBetween(values)]]
    ELSE st

RECURSIVE scan_slots(_, _, _, _, _)
scan_slots(cats, city, values, index, st) ==
    IF index > Len(cats) THEN st
    ELSE scan_slots(cats, city, values, index + 1, scan_slot(cats, city, values, index, st))

RECURSIVE scan_cities(_, _, _, _)
scan_cities(cities, cats, city, st) ==
    IF city > Len(cities) THEN st
    ELSE scan_cities(cities, cats, city + 1, scan_slots(cats, city, cities[city], 1, st))

\* cities[nearest_city] = {...}: a dict keeps the position of a key it already holds.
dict_put(d, entry) ==
    IF \E i \in 1..Len(d) : d[i].name = entry.name
    THEN [i \in 1..Len(d) |-> IF d[i].name = entry.name THEN entry ELSE d[i]]
    ELSE Append(d, entry)

RECURSIVE annotate(_, _, _, _, _)
annotate(cities, cats, st, index, out) ==
    IF index > Len(cats) THEN [ok |-> TRUE, error |-> "", cities |-> out]
    ELSE IF st.nearest_cities[index] = None THEN KeyError
    ELSE annotate(cities, cats, st, index + 1,
                  dict_put(out, [name |-> st.nearest_cities[index],
                                 category |-> cats[index],
                                 distance |-> st.distances[index]]))

select_cities(cities, cats) ==
    scan_cities(cities, cats, 1,
                [nearest_cities |-> [i \in 1..Len(cats) |-> None],
                 distances |-> [i \in 1..Len(cats) |-> NoDistance]])

getCityList(cities, cats) == annotate(cities, cats, select_cities(cities, cats), 1, <<>>)

RequestedCategories ==
    { <<"C", "B", "B", "A">>, <<"B", "B", "B", "A">>, <<"B", "B">>, <<"B", "C", "B">>, <<"A">> }

InitCityList ==
    /\ catalog \in SeqsUpTo(CityKinds(MaxListDist), MaxListed)
    /\ categories \in RequestedCategories
    /\ city_result = KeyError
    /\ cl_pc = "call"

GetCityList ==
    /\ cl_pc = "call"
    /\ city_result' = getCityList(catalog, categories)
    /\ cl_pc' = "done"
    /\ UNCHANGED <<catalog, categories>>
    /\ UNCHANGED ClFrame

IdleCityList ==
    /\ categories = <<>>
    /\ city_result = KeyError
    /\ cl_pc = "idle"

-----------------------------------------------------------------------------
(* finalizeShakeAlertValues: city ranking, promotion and re-ordering *)

city_types_requested == <<"C", "B", "B", "A">>
promoted_types == <<"B", "B", "B", "A">>

keys(d) == [i \in 1..Len(d) |-> d[i].name]

get(d, key) == (CHOOSE e \in Range(d) : e.name = key)

InitFinalize ==
    /\ catalog = <<>>
    /\ closest_cities = <<>>
    /\ first_cities = <<>>
    /\ selected = <<>>
    /\ city_keys = <<>>
    /\ calls = 0
    /\ fin_pc = "load"

\* cities = PyCities(cityListPath) (ShakeAlertParser.py 221-223): PyCities.__init__
\* adds one city for each line of the file it reads (PyCities.py 18-23) ...
LoadCity ==
    /\ fin_pc = "load"
    /\ Len(catalog) < MaxCatalog
    /\ \E values \in CityKinds(MaxDist) : catalog' = Append(catalog, values)
    /\ UNCHANGED <<closest_cities, first_cities, selected, city_keys, calls, fin_pc>>
    /\ UNCHANGED FinFrame

\* ... until the file ends.
LoadedCities ==
    /\ fin_pc = "load"
    /\ fin_pc' = "select"
    /\ UNCHANGED <<catalog, closest_cities, first_cities, selected, city_keys, calls>>
    /\ UNCHANGED FinFrame

\* ShakeAlertParser.py 231-232
SelectCities ==
    /\ fin_pc = "select"
    /\ LET r == getCityList(catalog, city_types_requested) IN
        /\ calls' = calls + 1
        /\ IF r.ok
           THEN /\ closest_cities' = r.cities
                /\ first_cities' = r.cities
                /\ fin_pc' = "promote"
           ELSE /\ UNCHANGED <<closest_cities, first_cities>>
                /\ fin_pc' = "error"
    /\ UNCHANGED <<catalog, selected, city_keys>>
    /\ UNCHANGED FinFrame

\* closest_cities[c_city]['distance'] > closest_cities[b_city]['distance'] (line 237)
b_is_closer_or_equal(d) ==
    get(d, keys(d)[1]).distance >= get(d, keys(d)[2]).distance

b_is_closer(d) ==
    get(d, keys(d)[1]).distance > get(d, keys(d)[2]).distance

\* ShakeAlertParser.py 234-243
PromoteCities ==
    /\ fin_pc = "promote"
    /\ IF b_is_closer(closest_cities)
       THEN LET r == getCityList(catalog, promoted_types) IN
             /\ calls' = calls + 1
             /\ IF r.ok
                THEN /\ closest_cities' = r.cities
                     /\ selected' = r.cities
                     /\ city_keys' = keys(r.cities)
                     /\ fin_pc' = "sort"
                ELSE /\ UNCHANGED <<closest_cities, selected, city_keys>>
                     /\ fin_pc' = "error"
       ELSE /\ city_keys' = keys(closest_cities)
            /\ selected' = closest_cities
            /\ fin_pc' = "sort"
            /\ UNCHANGED <<closest_cities, calls>>
    /\ UNCHANGED <<catalog, first_cities>>
    /\ UNCHANGED FinFrame

\* The pairs (i, j), i < j, the two for loops visit, in the order they visit them.
inverted_or_equal(ks, d, i, j) == get(d, ks[i]).distance >= get(d, ks[j]).distance

inverted(ks, d, i, j) == get(d, ks[i]).distance > get(d, ks[j]).distance

first_inversion(ks, d) ==
    LET pairs == { p \in (1..Len(ks)) \X (1..Len(ks)) : p[1] < p[2] /\ inverted(ks, d, p[1], p[2]) }
    IN CHOOSE p \in pairs :
         \A q \in pairs : p[1] < q[1] \/ (p[1] = q[1] /\ p[2] <= q[2])

has_inversion(ks, d) ==
    \E i \in 1..Len(ks), j \in 1..Len(ks) : i < j /\ inverted(ks, d, i, j)

exchange(ks, i, j) == [ks EXCEPT ![i] = ks[j], ![j] = ks[i]]

\* One iteration of `while True` that swaps (ShakeAlertParser.py 245-256).
SortSwap ==
    /\ fin_pc = "sort"
    /\ has_inversion(city_keys, closest_cities)
    /\ LET p == first_inversion(city_keys, closest_cities) IN
         city_keys' = exchange(city_keys, p[1], p[2])
    /\ UNCHANGED <<catalog, closest_cities, first_cities, selected, calls, fin_pc>>
    /\ UNCHANGED FinFrame

\* The iteration that finds no pair to swap and leaves the loop (257-258).
SortExit ==
    /\ fin_pc = "sort"
    /\ ~has_inversion(city_keys, closest_cities)
    /\ fin_pc' = "store"
    /\ UNCHANGED <<catalog, closest_cities, first_cities, selected, city_keys, calls>>
    /\ UNCHANGED FinFrame

\* ShakeAlertParser.py 260-269
StoreCities ==
    /\ fin_pc = "store"
    /\ closest_cities' = [i \in 1..Len(city_keys) |-> get(closest_cities, city_keys[i])]
    /\ fin_pc' = "done"
    /\ UNCHANGED <<catalog, first_cities, selected, city_keys, calls>>
    /\ UNCHANGED FinFrame

IdleFinalize ==
    /\ closest_cities = <<>>
    /\ first_cities = <<>>
    /\ selected = <<>>
    /\ city_keys = <<>>
    /\ calls = 0
    /\ fin_pc = "idle"

NextFinalize == LoadCity \/ LoadedCities \/ SelectCities \/ PromoteCities \/ SortSwap \/ SortExit \/ StoreCities

-----------------------------------------------------------------------------
(* Polygon strings, Coord and GMContour (ShakeAlertParser.py) *)

\* A numeric field as it is written: <<value, spelling>>.
Num(v) == <<v, 0>>
Respelt(v) == <<v, 1>>
float(field) == field[1]

\* One "lat,lon" token of a polygon string, and what Coord(*tok.split(',')) holds.
Coord(la, lo) == [lat |-> la, lon |-> lo]
Tok(la, lo) == Coord(Num(la), Num(lo))

PolyBig == <<Tok(0, 0), Tok(0, 4), Tok(4, 4), Tok(4, 0), Tok(0, 0)>>
PolySmall == <<Tok(1, 1), Tok(1, 3), Tok(3, 3), Tok(3, 1), Tok(1, 1)>>
PolyOpen == <<Tok(0, 0), Tok(0, 4), Tok(4, 4), Tok(4, 0)>>
PolyRespelt == <<Tok(0, 0), Tok(0, 4), Tok(4, 4), Tok(4, 0), Coord(Respelt(0), Num(0))>>

\* Coord.__ne__ (lines 288-289)
coord_ne(a, b) == a.lat # b.lat \/ a.lon # b.lon

ValueError == [ok |-> FALSE, error |-> "ValueError"]

\* A constructor that repairs an open ring instead of refusing it.
GMContour_closing(mmi, polygon) ==
    [ok |-> TRUE, error |-> "",
     contour |-> [mmi |-> mmi,
                  polygon |-> IF coord_ne(polygon[1], polygon[Len(polygon)])
                              THEN Append(polygon, polygon[1]) ELSE polygon]]

\* GMContour.__init__ (lines 306-325)
GMContour(mmi, polygon) ==
    IF coord_ne(polygon[1], polygon[Len(polygon)])
    THEN [ok |-> FALSE, error |-> "ValueError", contour |-> [mmi |-> mmi, polygon |-> <<>>]]
    ELSE [ok |-> TRUE, error |-> "", contour |-> [mmi |-> mmi, polygon |-> polygon]]

\* int(str(mmi)[:1]) for a raw MMI given in tenths (lines 408, 455-460)
RECURSIVE leading_digit(_)
leading_digit(n) == IF n < 10 THEN n ELSE leading_digit(n \div 10)

\* The whole part of the value, of however many digits.
mmi_whole(raw) == raw \div 10

mmi_truncate(raw) == leading_digit(raw \div 10)

\* parse_gm_contours (lines 392-435): the list of GMContour, or the error of the
\* first construction that fails.
RECURSIVE parse_gm_loop(_, _, _)
parse_gm_loop(raw, i, contours) ==
    IF i > Len(raw) THEN [ok |-> TRUE, error |-> "", contours |-> contours]
    ELSE LET c == GMContour(mmi_truncate(raw[i].mmi), raw[i].polygon) IN
         IF c.ok THEN parse_gm_loop(raw, i + 1, Append(contours, c.contour))
         ELSE [ok |-> FALSE, error |-> c.error, contours |-> <<>>]

parse_gm_contours(raw) == parse_gm_loop(raw, 1, <<>>)

\* The list kept in the order of the message.
insert_last(sorted, x) == Append(sorted, x)

\* sorted(allMMIpolys, key=lambda x: x[0], reverse=True): stable, greatest first.
insert_desc(sorted, x) ==
    LET n == Cardinality({ i \in 1..Len(sorted) : sorted[i][1] >= x[1] })
    IN SubSeq(sorted, 1, n) \o <<x>> \o SubSeq(sorted, n + 1, Len(sorted))

RECURSIVE sorted_desc(_, _, _)
sorted_desc(l, i, out) ==
    IF i > Len(l) THEN out ELSE sorted_desc(l, i + 1, insert_desc(out, l[i]))

\* Get_polygons (lines 438-465): [[MMI, polystr], ...]
Get_polygons(raw) ==
    sorted_desc([i \in 1..Len(raw) |-> <<mmi_truncate(raw[i].mmi), raw[i].polygon>>], 1, <<>>)

\* latlon_string_to_list / latlon_list_to_numeric (lines 695-727)
latlon_to_numeric(polystr, rev) ==
    [i \in 1..Len(polystr) |->
        IF rev THEN <<float(polystr[i].lon), float(polystr[i].lat)>>
        ELSE <<float(polystr[i].lat), float(polystr[i].lon)>>]

-----------------------------------------------------------------------------
(* ParseJSONContent (ShakeAlertParser.py 468-692) *)

NoMag == 0        \* preferred_origin absent: ANSSmag is None
Absent == [present |-> FALSE, list |-> <<>>]
Present(l) == [present |-> TRUE, list |-> l]

RawContours ==
    { [mmi |-> 20, polygon |-> PolyBig], [mmi |-> 30, polygon |-> PolyBig],
      [mmi |-> 40, polygon |-> PolyBig], [mmi |-> 30, polygon |-> PolySmall],
      [mmi |-> 20, polygon |-> PolyOpen], [mmi |-> 40, polygon |-> PolyOpen],
      [mmi |-> 30, polygon |-> PolyRespelt] }

AllLists == { Absent } \cup { Present(l) : l \in SeqsUpTo(RawContours, MaxContours) }

FewLists ==
    { Absent,
      Present(<<[mmi |-> 30, polygon |-> PolyBig]>>),
      Present(<<[mmi |-> 40, polygon |-> PolySmall], [mmi |-> 20, polygon |-> PolyBig]>>) }

Mags == {49, 50}

\* The events: one snapshot carries any contour list, the other two one of FewLists;
\* the peak-magnitude message has the greatest magnitude of the three.
EventsVarying(snapshot) ==
    { e \in [initial_mag : Mags, mag : Mags, peak_mag : Mags, ANSSmag : {NoMag} \cup Mags,
             initial : (IF snapshot = "initial" THEN AllLists ELSE FewLists),
             final : (IF snapshot = "final" THEN AllLists ELSE FewLists),
             peak : (IF snapshot = "peak" THEN AllLists ELSE FewLists)] :
        e.peak_mag >= e.initial_mag /\ e.peak_mag >= e.mag }

Events == EventsVarying("initial") \cup EventsVarying("final") \cup EventsVarying("peak")

NoEvent ==
    [initial_mag |-> 0, mag |-> 0, peak_mag |-> 0, ANSSmag |-> NoMag,
     initial |-> Absent, final |-> Absent, peak |-> Absent]

\* lines 579-584
new_MMItoUse(cur, m) ==
    IF m.ANSSmag # NoMag /\ m.ANSSmag < MagMapChange THEN MMISmall
    ELSE IF m.initial_mag < MagMapChange THEN MMISmall
    ELSE cur

\* mmi_initial[m[0]] = m[1] for m in MMIlist: the last entry of a level stays.
mmi_dict(MMIlist, level) ==
    MMIlist[CHOOSE i \in 1..Len(MMIlist) :
                /\ MMIlist[i][1] = level
                /\ \A j \in (i + 1)..Len(MMIlist) : MMIlist[j][1] # level][2]

dict_keys(MMIlist) == { MMIlist[i][1] : i \in 1..Len(MMIlist) }

min(S) == CHOOSE x \in S : \A y \in S : x <= y

\* lines 596-601
MMItoShow(use, mmis) == IF use \in mmis THEN use ELSE min(mmis)

EmptySnapshot ==
    [MMIlist |-> <<>>, MMItoShow |-> 0, polygonList |-> <<>>,
     polygonNumericList |-> <<>>, contours |-> <<>>]

\* lines 586-615: the initial snapshot
initial_block(raw, use) ==
    LET MMIlist == Get_polygons(raw)
        show == MMItoShow(use, dict_keys(MMIlist))
        parsed == parse_gm_contours(raw)
    IN IF MMIlist = <<>> THEN [ok |-> FALSE, error |-> "ValueError", snap |-> EmptySnapshot]
       ELSE IF ~parsed.ok THEN [ok |-> FALSE, error |-> parsed.error, snap |-> EmptySnapshot]
       ELSE [ok |-> TRUE, error |-> "",
             snap |-> [MMIlist |-> MMIlist,
                       MMItoShow |-> show,
                       polygonList |-> << <<show, latlon_to_numeric(mmi_dict(MMIlist, show), FALSE)>> >>,
                       polygonNumericList |-> latlon_to_numeric(mmi_dict(MMIlist, show), TRUE),
                       contours |-> parsed.contours]]

RECURSIVE polygons_from(_, _, _, _)
polygons_from(MMIlist, min_mmi, i, out) ==
    IF i > Len(MMIlist) THEN out
    ELSE polygons_from(MMIlist, min_mmi, i + 1,
            IF MMIlist[i][1] >= min_mmi
            THEN [polygonList |->
                      Append(out.polygonList,
                             <<MMIlist[i][1], <<latlon_to_numeric(MMIlist[i][2], FALSE)>> >>),
                  polygonNumericList |->
                      Append(out.polygonNumericList, latlon_to_numeric(MMIlist[i][2], TRUE))]
            ELSE out)

\* lines 618-652 (final) and 655-688 (peak magnitude)
later_block(raw, use) ==
    LET MMIlist == Get_polygons(raw)
        lists == polygons_from(MMIlist, use, 1, [polygonList |-> <<>>, polygonNumericList |-> <<>>])
        parsed == parse_gm_contours(raw)
    IN IF ~parsed.ok THEN [ok |-> FALSE, error |-> parsed.error, snap |-> EmptySnapshot]
       ELSE [ok |-> TRUE, error |-> "",
             snap |-> [MMIlist |-> MMIlist,
                       MMItoShow |-> 0,
                       polygonList |-> lists.polygonList,
                       polygonNumericList |-> lists.polygonNumericList,
                       contours |-> parsed.contours]]

NoValues ==
    [ok |-> FALSE, error |-> "", initial |-> EmptySnapshot, final |-> EmptySnapshot,
     peak |-> EmptySnapshot]

Raised(e) == [NoValues EXCEPT !.error = e]

parse_content(m, use) ==
    LET i == IF m.initial.present THEN initial_block(m.initial.list, use)
             ELSE [ok |-> TRUE, error |-> "", snap |-> EmptySnapshot]
        f == IF m.final.present THEN later_block(m.final.list, use)
             ELSE [ok |-> TRUE, error |-> "", snap |-> EmptySnapshot]
        p == IF m.peak.present THEN later_block(m.peak.list, use)
             ELSE [ok |-> TRUE, error |-> "", snap |-> EmptySnapshot]
    IN IF ~i.ok THEN Raised(i.error)
       ELSE IF ~f.ok THEN Raised(f.error)
       ELSE IF ~p.ok THEN Raised(p.error)
       ELSE [ok |-> TRUE, error |-> "", initial |-> i.snap, final |-> f.snap, peak |-> p.snap]

InitParse ==
    /\ MMItoUse = MMIAlert
    /\ msg = NoEvent
    /\ JSONValues = NoValues
    /\ nparsed = 0
    /\ parse_pc = "idle"

\* data = json.load(f) (lines 44-53)
LoadEvent ==
    /\ parse_pc = "idle"
    /\ nparsed < MaxEvents
    /\ msg' \in Events
    /\ parse_pc' = "loaded"
    /\ UNCHANGED <<MMItoUse, JSONValues, nparsed>>
    /\ UNCHANGED ParseFrame

ParseJSONContent ==
    /\ parse_pc = "loaded"
    /\ MMItoUse' = new_MMItoUse(MMItoUse, msg)
    /\ JSONValues' = parse_content(msg, MMItoUse')
    /\ parse_pc' = IF JSONValues'.ok THEN "returned" ELSE "raised"
    /\ nparsed' = nparsed + 1
    /\ UNCHANGED msg
    /\ UNCHANGED ParseFrame

\* The caller is done with the event; the module and its globals stay loaded.
NextEvent ==
    /\ parse_pc \in {"returned", "raised"}
    /\ msg' = NoEvent
    /\ JSONValues' = NoValues
    /\ parse_pc' = "idle"
    /\ UNCHANGED <<MMItoUse, nparsed>>
    /\ UNCHANGED ParseFrame

IdleParse == InitParse

NextParse == LoadEvent \/ ParseJSONContent \/ NextEvent

-----------------------------------------------------------------------------
(* point_in_poly and getIntensityLevel (EQCalculations.py) *)

PolyTri == <<Tok(0, 0), Tok(0, 4), Tok(4, 0), Tok(0, 0)>>

\* xints is kept as the fraction <<numerator, denominator>>; the coordinates are
\* whole numbers, for which the floating-point comparison x <= xints agrees
\* with the comparison of the exact fraction.
Unbound == <<0, 0>>

le_xints(x, xints) ==
    IF xints[2] > 0 THEN x * xints[2] <= xints[1] ELSE x * xints[2] >= xints[1]

less(a, b) == IF a < b THEN a ELSE b
greater(a, b) == IF a > b THEN a ELSE b

\* lines 35-43: one pass of the loop body, for the edge p1 -> p2
RECURSIVE pip_loop(_, _, _, _, _, _, _)
pip_loop(x, y, poly, i, p1, xints, inside) ==
    IF i > Len(poly) THEN [ok |-> TRUE, inside |-> inside]
    ELSE LET p2 == poly[(i % Len(poly)) + 1]
             reaches == /\ y > less(p1[2], p2[2])
                        /\ y <= greater(p1[2], p2[2])
                        /\ x <= greater(p1[1], p2[1])
             xints2 == IF reaches /\ p1[2] # p2[2]
                       THEN <<(y - p1[2]) * (p2[1] - p1[1]) + p1[1] * (p2[2] - p1[2]),
                              p2[2] - p1[2]>>
                       ELSE xints
         IN IF reaches /\ p1[1] # p2[1] /\ xints2 = Unbound
            THEN [ok |-> FALSE, inside |-> FALSE]
            ELSE pip_loop(x, y, poly, i + 1, p2, xints2,
                          IF reaches /\ (p1[1] = p2[1] \/ le_xints(x, xints2))
                          THEN ~inside ELSE inside)

\* point_in_poly with the coordinates exchanged.
point_in_poly_swapped(x, y, poly) == pip_loop(y, x, poly, 0, poly[1], Unbound, FALSE)

\* point_in_poly (lines 21-46)
point_in_poly(x, y, poly) == pip_loop(x, y, poly, 0, poly[1], Unbound, FALSE)

PyInt(n) == [type |-> "int", num |-> n, text |-> ""]
PyStr(t) == [type |-> "str", num |-> 0, text |-> t]
UnboundLocalError == [type |-> "UnboundLocalError", num |-> 0, text |-> ""]

\* intensityRomanNumeral (lines 172-187)
intensityRomanNumeral(MMI) ==
    IF MMI = 1 THEN PyStr("<II")
    ELSE IF MMI = 2 THEN PyStr("II")
    ELSE IF MMI = 3 THEN PyStr("III")
    ELSE IF MMI = 4 THEN PyStr("IV")
    ELSE IF MMI = 5 THEN PyStr("V")
    ELSE IF MMI = 6 THEN PyStr("VI")
    ELSE IF MMI = 7 THEN PyStr("VII")
    ELSE IF MMI = 8 THEN PyStr("VIII")
    ELSE IF MMI = 9 THEN PyStr("IX")
    ELSE IF MMI = 10 THEN PyStr("X")
    ELSE PyInt(MMI)

\* lines 141-144: polygon.append((float(lonp), float(latp)))
lonlat_polygon(polygon_coords) ==
    [i \in 1..Len(polygon_coords) |->
        <<float(polygon_coords[i].lon), float(polygon_coords[i].lat)>>]

\* A loop that remembers the match and goes on, so that the last one is returned.
RECURSIVE intensity_last(_, _, _, _, _, _)
intensity_last(list, lat, lon, roman, i, found) ==
    IF i > Len(list) THEN found
    ELSE LET hit == point_in_poly(lon, lat, lonlat_polygon(list[i][2])) IN
         intensity_last(list, lat, lon, roman, i + 1,
            IF hit.inside
            THEN (IF roman THEN intensityRomanNumeral(list[i][1]) ELSE PyInt(list[i][1]))
            ELSE found)

getIntensityLevel_last(list, lat, lon, roman) ==
    intensity_last(list, lat, lon, roman, 1, IF roman THEN PyStr("<II") ELSE PyStr("1"))

\* lines 139-163
RECURSIVE intensity_loop(_, _, _, _, _)
intensity_loop(list, lat, lon, roman, i) ==
    IF i > Len(list) THEN (IF roman THEN PyStr("<II") ELSE PyStr("1"))
    ELSE LET hit == point_in_poly(lon, lat, lonlat_polygon(list[i][2])) IN
         IF ~hit.ok THEN UnboundLocalError
         ELSE IF hit.inside
         THEN (IF roman THEN intensityRomanNumeral(list[i][1]) ELSE PyInt(list[i][1]))
         ELSE intensity_loop(list, lat, lon, roman, i + 1)

\* getIntensityLevel (lines 130-170)
getIntensityLevel(list, lat, lon, roman) == intensity_loop(list, lat, lon, roman, 1)

IntensityPolygons == {PolyBig, PolySmall, PolyTri, PolyOpen}
IntensityMMIs == 2..4
GridValues == (0 - 1)..5

InitIntensity ==
    /\ arg_MMIlist \in SeqsUpTo(IntensityMMIs \X IntensityPolygons, MaxPolygons)
    /\ point \in [lat : GridValues, lon : GridValues]
    /\ getRomanNum \in BOOLEAN
    /\ intensity = PyStr("")
    /\ int_pc = "call"

GetIntensityLevel ==
    /\ int_pc = "call"
    /\ intensity' = getIntensityLevel(arg_MMIlist, point.lat, point.lon, getRomanNum)
    /\ int_pc' = "done"
    /\ UNCHANGED <<arg_MMIlist, point, getRomanNum>>
    /\ UNCHANGED IntFrame

IdleIntensity ==
    /\ arg_MMIlist = <<>>
    /\ point = [lat |-> 0, lon |-> 0]
    /\ getRomanNum = FALSE
    /\ intensity = PyStr("")
    /\ int_pc = "idle"

-----------------------------------------------------------------------------
(* Single calls of the functions of EQCalculations, PyCities and PyEventImage *)

IdleCall ==
    /\ call_args = <<>>
    /\ call_ret = <<>>
    /\ call_pc = "idle"

\* Everything else of the program is at rest during such a call.
IdleProgram ==
    IdleFilter /\ catalog = <<>> /\ IdleCityList /\ IdleFinalize /\ IdleParse /\ IdleIntensity

\* The polygons handed to point_in_poly: vertex lists over a coarse lattice,
\* closed (first vertex repeated at the end) or not.
LatticeValues == {0, 2, 4}
Lattice == LatticeValues \X LatticeValues

VertexLists ==
    { l \in SeqsUpTo(Lattice, MaxVertices) :
        Len(l) >= 3 /\ \A i, j \in 1..Len(l) : i # j => l[i] # l[j] }

InitPointInPoly ==
    /\ \E l \in VertexLists, closed \in BOOLEAN, x, y \in GridValues :
        call_args = [x |-> x, y |-> y, poly |-> IF closed THEN Append(l, l[1]) ELSE l]
    /\ call_ret = <<>>
    /\ call_pc = "call"

PointInPoly ==
    /\ call_pc = "call"
    /\ call_ret' = point_in_poly(call_args.x, call_args.y, call_args.poly)
    /\ call_pc' = "done"
    /\ UNCHANGED call_args
    /\ UNCHANGED CallFrame

-----------------------------------------------------------------------------
(* Binary floating point.  A number is a whole count of units of 2^-FracBits
   and is representable when it has at most Precision significant bits;
   every operation rounds its exact result to the nearest representable
   number, ties to the even one, as IEEE 754 arithmetic does with 53 bits. *)
Unit == 2 ^ FracBits

abs(v) == IF v < 0 THEN 0 - v ELSE v
sign(v) == IF v < 0 THEN 0 - 1 ELSE 1

RECURSIVE ilog2(_)
ilog2(v) == IF v < 2 THEN 0 ELSE 1 + ilog2(v \div 2)

\* The distance between neighbouring representable numbers at magnitude a.
spacing(a) == IF a < 2 ^ Precision THEN 1 ELSE 2 ^ (ilog2(a) - Precision + 1)

\* The representable number nearest to n/d units (n >= 0, d > 0).
nearest(n, d) ==
    LET s == spacing(n \div d)
        k == n \div (d * s)
        r == n - k * d * s
        up == 2 * r > d * s \/ (2 * r = d * s /\ k % 2 = 1)
    IN (IF up THEN k + 1 ELSE k) * s

fl(v) == sign(v) * nearest(abs(v), 1)
fadd(a, b) == fl(a + b)
fsub(a, b) == fl(a - b)
fmul(a, b) == sign(a) * sign(b) * nearest(abs(a) * abs(b), Unit)
fdiv(a, b) == sign(a) * sign(b) * nearest(abs(a) * Unit, abs(b))

\* int(): truncation toward zero
int(v) == sign(v) * (abs(v) \div Unit)

\* n/d as a float literal
Lit(n, d) == fl((n * Unit) \div d)

Representable(v) == fl(v) = v

IndexError == [ok |-> FALSE, error |-> "IndexError", label |-> ""]

\* bearings[index] of a Python list
list_index(list, index) ==
    IF index >= Len(list) \/ index < 0 - Len(list) THEN IndexError
    ELSE [ok |-> TRUE, error |-> "",
          label |-> list[(IF index < 0 THEN index + Len(list) ELSE index) + 1]]

bearings == <<"NE", "E", "SE", "S", "SW", "W", "NW", "N">>

\* EQCalculations.get_compass_direction (lines 289-298)
get_compass_direction(compass_bearing_degrees) ==
    LET index0 == fsub(compass_bearing_degrees, Lit(45, 2))
        index1 == IF index0 < 0 THEN fadd(index0, Lit(360, 1)) ELSE index0
        index == int(fdiv(index1, Lit(45, 1)))
    IN list_index(bearings, index)

\* PyCities.get_compass_direction (lines 89-98)
PyCities_get_compass_direction(compass_bearing_degrees) ==
    LET index0 == fsub(compass_bearing_degrees, Lit(45, 2))
        index1 == IF index0 < 0 THEN fadd(index0, Lit(360, 1)) ELSE index0
        index == int(fdiv(index1, Lit(45, 1)))
    IN list_index(bearings, index)

NotCalled == [ok |-> FALSE, error |-> "not called", label |-> ""]

\* Every representable bearing of [0, 360)
Bearings ==
    { v \in { m * 2 ^ e : m \in 0..(2 ^ Precision - 1),
                          e \in 0..(ilog2(360 * Unit) - Precision + 1) } :
        v < 360 * Unit }

InitCompass ==
    /\ call_args \in [compass_bearing_degrees : Bearings]
    /\ call_ret = [eq |-> NotCalled, py |-> NotCalled]
    /\ call_pc = "call"

GetCompassDirection ==
    /\ call_pc = "call"
    /\ call_ret.eq = NotCalled
    /\ call_ret' = [call_ret EXCEPT !.eq = get_compass_direction(call_args.compass_bearing_degrees)]
    /\ UNCHANGED <<call_args, call_pc>>
    /\ UNCHANGED CallFrame

PyCitiesGetCompassDirection ==
    /\ call_pc = "call"
    /\ call_ret.py = NotCalled
    /\ call_ret' = [call_ret EXCEPT !.py = PyCities_get_compass_direction(call_args.compass_bearing_degrees)]
    /\ UNCHANGED <<call_args, call_pc>>
    /\ UNCHANGED CallFrame

NextCompass == GetCompassDirection \/ PyCitiesGetCompassDirection

-----------------------------------------------------------------------------
(* get_alert_circle_params (PyEventImage.py 57-79).  Times are whole seconds,
   the velocity whole km/s, depths and distances whole km; a radius is kept
   in whole tens of metres. *)

RECURSIVE isqrt_between(_, _, _)
isqrt_between(n, lo, hi) ==
    IF lo >= hi THEN lo
    ELSE LET mid == (lo + hi + 1) \div 2
         IN IF mid * mid <= n THEN isqrt_between(n, mid, hi)
            ELSE isqrt_between(n, lo, mid - 1)

\* The whole part of the square root of n >= 0.
isqrt(n) == isqrt_between(n, 0, 46340)

MathDomainError == [ok |-> FALSE, error |-> "ValueError", radii |-> <<>>]

\* math.sqrt(y) * 1000 in tens of metres, for y in km^2; math.sqrt raises below 0.
sqrt_metres(y) ==
    IF y < 0 THEN [ok |-> FALSE, value |-> 0] ELSE [ok |-> TRUE, value |-> isqrt(y * 10000)]

\* lines 66-68
radii_show(init_sa_mag) == IF init_sa_mag < 60 THEN <<0, 10, 20>> ELSE <<0, 10, 20, 30>>

\* lines 71-78: the (duration, radius) items of the dict in insertion order
RECURSIVE alert_radii(_, _, _, _, _, _)
alert_radii(show, dt, v, depth, i, out) ==
    IF i > Len(show) THEN [ok |-> TRUE, error |-> "", radii |-> out]
    ELSE LET reach == (dt + show[i]) * v
             root == sqrt_metres(reach * reach - depth * depth)
         IN IF reach > depth
            THEN IF root.ok
                 THEN alert_radii(show, dt, v, depth, i + 1, Append(out, <<show[i], root.value>>))
                 ELSE MathDomainError
            ELSE alert_radii(show, dt, v, depth, i + 1, Append(out, <<show[i], 0>>))

get_alert_circle_params(init_sa_mag, init_sa_to_anss_dt, s_wave_velocity, anss_depth) ==
    alert_radii(radii_show(init_sa_mag), init_sa_to_anss_dt, s_wave_velocity, anss_depth,
                1, <<>>)

AlertMags == {53, 59, 60, 61}
AlertDts == (0 - 2)..8
AlertVelocities == {1, 4}
AlertDepths == {0 - 2, 0, 1, 5, 28, 100}

InitAlertCircle ==
    /\ call_args \in [init_sa_mag : AlertMags, init_sa_to_anss_dt : AlertDts,
                      s_wave_velocity : AlertVelocities, anss_depth : AlertDepths]
    /\ call_ret = <<>>
    /\ call_pc = "call"

GetAlertCircleParams ==
    /\ call_pc = "call"
    /\ call_ret' = get_alert_circle_params(call_args.init_sa_mag, call_args.init_sa_to_anss_dt,
                                           call_args.s_wave_velocity, call_args.anss_depth)
    /\ call_pc' = "done"
    /\ UNCHANGED call_args
    /\ UNCHANGED CallFrame

-----------------------------------------------------------------------------
(* round_half_up (EQCalculations.py 10-18) *)

\* math.floor
floor(v) == v \div Unit

\* float(n) of a whole number
of_int(n) == fl(n * Unit)

\* lines 17-18
round_half_up(num, precision) ==
    LET multiplier == 10 ^ precision
    IN fdiv(of_int(floor(fadd(fmul(num, of_int(multiplier)), Lit(1, 2)))), of_int(multiplier))

\* Every representable number of [-8, 8]
RoundInputs ==
    { v \in { s * m * 2 ^ e : s \in {0 - 1, 1}, m \in 0..(2 ^ Precision - 1), e \in 0..4 } :
        abs(v) <= 8 * Unit }

\* precision is 0 when the caller leaves it out
InitRound ==
    /\ call_args \in [num : RoundInputs, given : BOOLEAN, precision : {0, 1}]
    /\ call_args.given \/ call_args.precision = 0
    /\ call_ret = <<>>
    /\ call_pc = "call"

RoundHalfUp ==
    /\ call_pc = "call"
    /\ call_ret' = [value |-> round_half_up(call_args.num,
                                            IF call_args.given THEN call_args.precision ELSE 0)]
    /\ call_pc' = "done"
    /\ UNCHANGED call_args
    /\ UNCHANGED CallFrame

-----------------------------------------------------------------------------
(* getDistance and getNumStationsInRange (EQCalculations.py 113-127, 312-317).
   A station is known by its distance from the point in whole km.  For a
   station at the point itself the sum of the two cosine terms is 1 in exact
   arithmetic and, rounded, either 1.0 or the next float above it, for which
   math.acos raises. *)
StationKinds ==
    { [dist |-> d, above_one |-> FALSE] : d \in {0, 10, 11, 100, 101} }
        \cup { [dist |-> 0, above_one |-> TRUE] }

\* getDistance(point, stationDict[station], miles=False)
getDistance(station) ==
    IF station.above_one THEN [ok |-> FALSE, error |-> "ValueError", km |-> 0]
    ELSE [ok |-> TRUE, error |-> "", km |-> station.dist]

\* lines 313-317
RECURSIVE count_stations(_, _, _, _)
count_stations(stationDict, distanceKM, i, numStations) ==
    IF i > Len(stationDict) THEN [ok |-> TRUE, error |-> "", n |-> numStations]
    ELSE LET d == getDistance(stationDict[i]) IN
         IF ~d.ok THEN [ok |-> FALSE, error |-> d.error, n |-> 0]
         ELSE count_stations(stationDict, distanceKM, i + 1,
                             IF d.km <= distanceKM THEN numStations + 1 ELSE numStations)

getNumStationsInRange(stationDict, distanceKM) == count_stations(stationDict, distanceKM, 1, 0)

NoCount == [ok |-> FALSE, error |-> "not called", n |-> 0]

InitStations ==
    /\ call_args \in [stationDict : SeqsUpTo(StationKinds, MaxStations)]
    /\ call_ret = [numStationsIn10KM |-> NoCount, numStationsIn100KM |-> NoCount]
    /\ call_pc = "call"

\* ShakeAlertParser.py 195-199 / 206-210
CountStationsIn10KM ==
    /\ call_pc = "call"
    /\ call_ret.numStationsIn10KM = NoCount
    /\ LET n == getNumStationsInRange(call_args.stationDict, 10) IN
        /\ call_ret' = [call_ret EXCEPT !.numStationsIn10KM = n]
        /\ call_pc' = IF n.ok THEN "call" ELSE "raised"
    /\ UNCHANGED call_args
    /\ UNCHANGED CallFrame

\* ShakeAlertParser.py 200-204 / 211-215
CountStationsIn100KM ==
    /\ call_pc = "call"
    /\ call_ret.numStationsIn10KM # NoCount
    /\ LET n == getNumStationsInRange(call_args.stationDict, 100) IN
        /\ call_ret' = [call_ret EXCEPT !.numStationsIn100KM = n]
        /\ call_pc' = IF n.ok THEN "done" ELSE "raised"
    /\ UNCHANGED call_args
    /\ UNCHANGED CallFrame

NextStations == CountStationsIn10KM \/ CountStationsIn100KM

-----------------------------------------------------------------------------
(* The time to alert of a selected city (PyCities.py 58-81): the body of the
   loop of getCityList that fills in 'time'.  Depth and distance are whole km,
   times hundredths of a second. *)

\* math.sqrt(depth**2 + distance**2) in tens of metres (line 70)
slant_dist(depth, distance) == isqrt((depth * depth + distance * distance) * 10000)

\* slant_dist / s_near_source with s_near_source = 3.55 km/s (lines 62, 72)
s_tt(depth, distance) == (slant_dist(depth, distance) * 100) \div 355

max(a, b) == IF b > a THEN b ELSE a

\* The difference of the two times, not held at zero.
city_time_delta_signed(depth, distance, time_delta) == s_tt(depth, distance) - time_delta

\* line 73
city_time_delta(depth, distance, time_delta) == max(s_tt(depth, distance) - time_delta, 0)

CityDepths == {0 - 2, 0, 5, 28}
CityDistances == {0, 1, 10, 100}
TimeDeltas == {0 - 500, 0, 100, 797, 3000}

NoTime == 0 - 1000000

InitCityTime ==
    /\ call_args \in [depth : CityDepths, distance : CityDistances,
                      time_delta : TimeDeltas, later : TimeDeltas]
    /\ call_args.later = call_args.time_delta
    /\ call_ret = [time |-> NoTime, later |-> NoTime]
    /\ call_pc = "call"

\* getCityList(lat, lon, depth, types, delta), for one of its cities
CityTimeDelta ==
    /\ call_pc = "call"
    /\ call_ret' = [call_ret EXCEPT
                      !.time = city_time_delta(call_args.depth, call_args.distance,
                                               call_args.time_delta)]
    /\ call_pc' = "again"
    /\ UNCHANGED call_args
    /\ UNCHANGED CallFrame

\* The same call for the same event and city at an elapsed time that is no earlier.
CityTimeDeltaLater ==
    /\ call_pc = "again"
    /\ \E later \in TimeDeltas :
        /\ later >= call_args.time_delta
        /\ call_args' = [call_args EXCEPT !.later = later]
        /\ call_ret' = [call_ret EXCEPT
                          !.later = city_time_delta(call_args.depth, call_args.distance, later)]
    /\ call_pc' = "done"
    /\ UNCHANGED CallFrame

NextCityTime == CityTimeDelta \/ CityTimeDeltaLater

-----------------------------------------------------------------------------
(* getTimeDelta (EQCalculations.py 199-236).  A timestamp string is the date,
   a separator, the time of day to the second, a fraction of a second if it
   has one, a suffix, and whatever the function appends. *)
Timestamps ==
    { ts \in [sep : {"T", " ", ""}, frac : BOOLEAN, suffix : {"", " (UTC)", "Z"},
              tail : {""}, secs : {0, 1, 3}, ms : {0, 500}] :
        ts.frac \/ ts.ms = 0 }

\* the substring tests of lines 200, 203, 212-216, 222-226
contains(ts, sub) ==
    CASE sub = "." -> ts.frac \/ ts.tail = ".000"
      [] sub = "UTC" -> ts.suffix = " (UTC)"
      [] sub = "T" -> ts.sep = "T" \/ ts.suffix = " (UTC)"
      [] sub = " " -> ts.sep = " " \/ ts.suffix = " (UTC)"

\* lines 200-205
with_fraction(ts) == IF ~contains(ts, ".") THEN [ts EXCEPT !.tail = ".000"] ELSE ts

\* The text ends in one fraction of a second and nothing else.
ends_in_fraction(ts) ==
    ts.suffix = "" /\ ((ts.frac /\ ts.tail = "") \/ (~ts.frac /\ ts.tail = ".000"))

\* datetime.datetime.strptime(text, FMT)
strptime(ts, FMT) ==
    LET matches ==
            CASE FMT = "FMT1" -> ts.sep = "T" /\ ends_in_fraction(ts)
              [] FMT = "FMT2" -> ts.sep = " " /\ ends_in_fraction(ts)
              [] FMT = "FMT3" -> ts.sep = " " /\ ts.frac /\ ts.suffix = " (UTC)" /\ ts.tail = ""
    IN IF matches THEN [ok |-> TRUE, error |-> "", bound |-> TRUE, at |-> ts.secs * 1000 + ts.ms]
       ELSE [ok |-> FALSE, error |-> "ValueError", bound |-> FALSE, at |-> 0]

\* A chain that asks for a fraction written in the text itself.
parse_time_strict(ts) ==
    IF ~ts.frac THEN [ok |-> FALSE, error |-> "ValueError", bound |-> FALSE, at |-> 0]
    ELSE IF contains(ts, "UTC") THEN strptime(ts, "FMT3")
    ELSE IF contains(ts, "T") THEN strptime(ts, "FMT1")
    ELSE IF contains(ts, " ") THEN strptime(ts, "FMT2")
    ELSE [ok |-> TRUE, error |-> "", bound |-> FALSE, at |-> 0]

\* lines 212-220 (alert_time) and 222-230 (origin_time): the else branch only prints
parse_time(ts) ==
    IF contains(ts, "UTC") THEN strptime(ts, "FMT3")
    ELSE IF contains(ts, "T") THEN strptime(ts, "FMT1")
    ELSE IF contains(ts, " ") THEN strptime(ts, "FMT2")
    ELSE [ok |-> TRUE, error |-> "", bound |-> FALSE, at |-> 0]

TimeError(e) == [ok |-> FALSE, error |-> e, time_delta |-> 0]

\* time_delta in milliseconds
getTimeDelta(alert_time, origin_time) ==
    LET atime == parse_time(with_fraction(alert_time))
        otime == parse_time(with_fraction(origin_time))
    IN IF ~atime.ok THEN TimeError(atime.error)
       ELSE IF ~otime.ok THEN TimeError(otime.error)
       ELSE IF ~atime.bound \/ ~otime.bound THEN TimeError("UnboundLocalError")
       ELSE [ok |-> TRUE, error |-> "", time_delta |-> atime.at - otime.at]

InitTimeDelta ==
    /\ call_args \in [alert_time : Timestamps, origin_time : Timestamps]
    /\ call_ret = <<>>
    /\ call_pc = "call"

GetTimeDelta ==
    /\ call_pc = "call"
    /\ call_ret' = getTimeDelta(call_args.alert_time, call_args.origin_time)
    /\ call_pc' = "done"
    /\ UNCHANGED call_args
    /\ UNCHANGED CallFrame

-----------------------------------------------------------------------------
(* A run of the program on one event: finalizeShakeAlertValues
   (ShakeAlertParser.py 57-272) and the report of PDFCreate.py 1501-1575.
   The record's timestamps are in the form the parser asks for.  A station
   or a city is known by its distance to the point the counts and the ranking
   are asked around. *)
MaxRunStations == 1

\* preferred_origin (ShakeAlertParser.py 564-577): absent, or an origin whose
\* latitude or longitude is 0, whose event time is `elapsed` ms before the
\* initial alert, and which may lie on an alert location so that getDistance fails
NoOrigin == [present |-> FALSE, at_zero |-> FALSE, elapsed |-> 0, above_one |-> FALSE]

Origins ==
    { NoOrigin } \cup [present : {TRUE}, at_zero : BOOLEAN, elapsed : {0, 4500}, above_one : BOOLEAN]

\* if ShakeAlertValues.get("ANSSorig_time") (lines 60, 104, 137)
time_keys ==
    {"ANSStimeObj", "ANSStimetoorigin", "t_ANSSotime_SAalert_init",
     "t_ANSSotime_SAalert_peakM", "t_ANSSotime_SAalert_final", "sWaveRadius"}

\* if ANSSlat and ANSSlon (lines 154-188)
location_keys ==
    {"initialAlertDistance", "peakMAlertDistance", "finalAlertDistance",
     "initialCompassDirection", "peakMCompassDirection", "finalCompassDirection",
     "initialAzimuthError", "peakMAzimuthError", "finalAzimuthError"}

\* while True ... (lines 245-258)
RECURSIVE reorder(_, _)
reorder(ks, d) ==
    IF has_inversion(ks, d)
    THEN LET p == first_inversion(ks, d) IN reorder(exchange(ks, p[1], p[2]), d)
    ELSE ks

\* lines 231-266
rank_cities(cities) ==
    LET first == getCityList(cities, city_types_requested) IN
    IF ~first.ok THEN first
    ELSE LET second == IF b_is_closer(first.cities)
                       THEN getCityList(cities, promoted_types) ELSE first
         IN IF ~second.ok THEN second
            ELSE LET ks == reorder(keys(second.cities), second.cities)
                 IN [ok |-> TRUE, error |-> "",
                     cities |-> [i \in 1..Len(ks) |-> get(second.cities, ks[i])]]

NotFinalized ==
    [ok |-> FALSE, error |-> "not called", set |-> {}, stations_around |-> "",
     numStationsIn10KM |-> 0, numStationsIn100KM |-> 0, cities_around |-> "",
     delta |-> 0, closestCities |-> <<>>, pdf |-> FALSE, geojson |-> FALSE]

finalize_raised(e) == [NotFinalized EXCEPT !.error = e]

finalizeShakeAlertValues(origin, stationDict, cities) ==
    LET located == origin.present /\ ~origin.at_zero
        timed == IF origin.present THEN time_keys ELSE {}
        in10 == getNumStationsInRange(stationDict, 10)
        in100 == getNumStationsInRange(stationDict, 100)
        ranked == rank_cities(cities)
        around_origin == located /\ origin.elapsed # 0
    IN IF located /\ origin.above_one THEN finalize_raised("ValueError")
       ELSE IF ~in10.ok THEN finalize_raised(in10.error)
       ELSE IF ~in100.ok THEN finalize_raised(in100.error)
       ELSE IF ~ranked.ok THEN finalize_raised(ranked.error)
       ELSE [ok |-> TRUE, error |-> "",
             set |-> timed \cup (IF located THEN location_keys ELSE {}),
             stations_around |-> IF located THEN "ANSS" ELSE "initial",
             numStationsIn10KM |-> in10.n, numStationsIn100KM |-> in100.n,
             cities_around |-> IF around_origin THEN "ANSS" ELSE "initial",
             delta |-> IF around_origin THEN origin.elapsed ELSE 0,
             closestCities |-> ranked.cities, pdf |-> FALSE, geojson |-> FALSE]

\* PDFCreate.py 31-45
has_anss_origin_data(origin, event_data) ==
    /\ origin.present /\ ~origin.at_zero
    /\ {"ANSStimeObj", "t_ANSSotime_SAalert_init", "t_ANSSotime_SAalert_final"} \subseteq event_data.set
    /\ origin.elapsed # 0

InitRun ==
    /\ call_args \in [origin : Origins,
                      stationDict : SeqsUpTo(StationKinds, MaxRunStations),
                      cities : SeqsUpTo(CityKinds(MaxDist), MaxListed)]
    /\ call_ret = NotFinalized
    /\ call_pc = "call"

\* PDFCreate.py 1494-1498
ParseJSONFile ==
    /\ call_pc = "call"
    /\ call_ret' = finalizeShakeAlertValues(call_args.origin, call_args.stationDict, call_args.cities)
    /\ call_pc' = IF call_ret'.ok THEN "parsed" ELSE "raised"
    /\ UNCHANGED call_args
    /\ UNCHANGED CallFrame

\* PDFCreate.py 1500-1559
SavePdf ==
    /\ call_pc = "parsed"
    /\ call_ret' = [call_ret EXCEPT !.pdf = TRUE]
    /\ call_pc' = "report"
    /\ UNCHANGED call_args
    /\ UNCHANGED CallFrame

\* PDFCreate.py 1561-1573
ExportGeoJSON ==
    /\ call_pc = "report"
    /\ call_ret' = [call_ret EXCEPT !.geojson = has_anss_origin_data(call_args.origin, call_ret)]
    /\ call_pc' = "done"
    /\ UNCHANGED call_args
    /\ UNCHANGED CallFrame

NextRun == ParseJSONFile \/ SavePdf \/ ExportGeoJSON

-----------------------------------------------------------------------------
(* The catalog loaders: PyCities.__init__ (PyCities.py 10-26) and
   parseStationFile (EQCalculations.py 301-309).  A line is known by what the
   loader looks at; a loaded entry is named by the number of its line. *)
MaxLines == 3

\* a line of the city file: the number of its comma-separated fields, whether
\* float(lat), float(lon) and int(pop) succeed, whether it contains "Category"
CityLines == [fields : {1, 5, 6}, numeric : BOOLEAN, header : BOOLEAN]

\* a line of the station file: the number of its blank-separated words, whether
\* float() succeeds on words 4 and 5, whether it contains "#", whether it is '\n'
StationLines ==
    [words : {0, 2, 6, 7}, numeric : BOOLEAN, comment : BOOLEAN, newline : {FALSE}]
        \cup { [words |-> 0, numeric |-> FALSE, comment |-> FALSE, newline |-> TRUE] }

\* lines 18-26: `except:` prints 'Bad line' and goes on
RECURSIVE load_cities(_, _, _)
load_cities(lines, i, cities) ==
    IF i > Len(lines) THEN [ok |-> TRUE, error |-> "", loaded |-> cities]
    ELSE IF lines[i].header THEN load_cities(lines, i + 1, cities)
    ELSE IF lines[i].fields = 5 /\ lines[i].numeric THEN load_cities(lines, i + 1, Append(cities, i))
    ELSE load_cities(lines, i + 1, cities)

PyCities_init(lines) == load_cities(lines, 1, <<>>)

\* lines 304-308: nothing catches what stationLine[...] and float() raise
RECURSIVE load_stations(_, _, _)
load_stations(lines, i, stationDict) ==
    IF i > Len(lines) THEN [ok |-> TRUE, error |-> "", loaded |-> stationDict]
    ELSE IF lines[i].comment \/ lines[i].newline THEN load_stations(lines, i + 1, stationDict)
    ELSE IF lines[i].words < 6 THEN [ok |-> FALSE, error |-> "IndexError", loaded |-> <<>>]
    ELSE IF ~lines[i].numeric THEN [ok |-> FALSE, error |-> "ValueError", loaded |-> <<>>]
    ELSE load_stations(lines, i + 1, Append(stationDict, i))

parseStationFile(lines) == load_stations(lines, 1, <<>>)

InitCatalogs ==
    /\ call_args \in [file : {"cityList"}, lines : SeqsUpTo(CityLines, MaxLines)]
                       \cup [file : {"stationFile"}, lines : SeqsUpTo(StationLines, MaxLines)]
    /\ call_ret = <<>>
    /\ call_pc = "call"

\* cities = PyCities(cityListPath) (ShakeAlertParser.py 223)
PyCitiesInit ==
    /\ call_pc = "call"
    /\ call_args.file = "cityList"
    /\ call_ret' = PyCities_init(call_args.lines)
    /\ call_pc' = "done"
    /\ UNCHANGED call_args
    /\ UNCHANGED CallFrame

\* stationDict = EQCalculations.parseStationFile(stationFilePath) (ShakeAlertParser.py 193)
ParseStationFile ==
    /\ call_pc = "call"
    /\ call_args.file = "stationFile"
    /\ call_ret' = parseStationFile(call_args.lines)
    /\ call_pc' = IF call_ret'.ok THEN "done" ELSE "raised"
    /\ UNCHANGED call_args
    /\ UNCHANGED CallFrame

NextCatalogs == PyCitiesInit \/ ParseStationFile

-----------------------------------------------------------------------------
(* ParseJSONStr (ShakeAlertParser.py 44-47): ParseJSONContent, then
   finalizeShakeAlertValues with its time reconciliation (lines 57-141). *)

\* the forms of a ShakeAlert timestamp: 'T' with a fraction, 'T' in whole
\* seconds, a blank with a fraction, no separator
AlertTimes ==
    { ts \in Timestamps :
        /\ ts.secs = 1 /\ ts.suffix = "" /\ (ts.frac => ts.ms = 500)
        /\ (ts.sep = "T" \/ ts.frac) }

\* event_time and update_time of preferred_origin, earlier than the alerts
OriginTimes == { [ts EXCEPT !.secs = 0] : ts \in AlertTimes }

NoTimestamp == [sep |-> "", frac |-> FALSE, suffix |-> "", tail |-> "", secs |-> 0, ms |-> 0]

NoPreferredOrigin == [present |-> FALSE, event_time |-> NoTimestamp, update |-> FALSE, update_time |-> NoTimestamp]

PreferredOrigins ==
    { NoPreferredOrigin }
        \cup [present : {TRUE}, event_time : OriginTimes, update : {TRUE}, update_time : OriginTimes]
        \cup [present : {TRUE}, event_time : OriginTimes, update : {FALSE}, update_time : {NoTimestamp}]

ContourLists ==
    { Absent,
      Present(<<[mmi |-> 40, polygon |-> PolyBig]>>),
      Present(<<[mmi |-> 40, polygon |-> PolyBig], [mmi |-> 30, polygon |-> PolyOpen]>>) }

StationDicts == { <<>>, <<[dist |-> 0, above_one |-> TRUE]>> }

CityCatalogs ==
    { <<>>,
      <<[category |-> "C", dist |-> 1], [category |-> "B", dist |-> 2],
        [category |-> "B", dist |-> 1], [category |-> "A", dist |-> 2]>> }

\* ANSStimeObj.strftime("%Y-%m-%d %H:%M:%S.%f (UTC)") (line 65)
strftime(at) ==
    [sep |-> " ", frac |-> TRUE, suffix |-> " (UTC)", tail |-> "",
     secs |-> at \div 1000, ms |-> at % 1000]

NoDeltas ==
    [ANSStimetoorigin |-> NoTime, t_ANSSotime_SAalert_init |-> NoTime,
     t_ANSSotime_SAalert_peakM |-> NoTime, t_ANSSotime_SAalert_final |-> NoTime]

times_raised(e) == [ok |-> FALSE, error |-> e, deltas |-> NoDeltas]

\* A reconciliation that leaves out a time it cannot work out.
reconcile_times_lenient(origin, initial_timestamp, peak_mag_timestamp, timestamp) ==
    LET ANSStimeObj == strptime(origin.event_time, "FMT1")
        ANSSorig_time == strftime(ANSStimeObj.at)
        SA_inittimeObj == strptime(initial_timestamp, "FMT1")
        delta(t) == LET d == getTimeDelta(t, ANSSorig_time)
                    IN IF d.ok THEN d.time_delta ELSE NoTime
    IN IF origin.present /\ ~ANSStimeObj.ok THEN times_raised(ANSStimeObj.error)
       ELSE IF ~SA_inittimeObj.ok THEN times_raised(SA_inittimeObj.error)
       ELSE IF ~origin.present THEN [ok |-> TRUE, error |-> "", deltas |-> NoDeltas]
       ELSE [ok |-> TRUE, error |-> "",
             deltas |-> [ANSStimetoorigin |-> IF origin.update THEN delta(origin.update_time) ELSE NoTime,
                         t_ANSSotime_SAalert_init |-> delta(initial_timestamp),
                         t_ANSSotime_SAalert_peakM |-> delta(peak_mag_timestamp),
                         t_ANSSotime_SAalert_final |-> delta(timestamp)]]

\* lines 57-141
reconcile_times(origin, initial_timestamp, peak_mag_timestamp, timestamp) ==
    LET ANSStimeObj == strptime(origin.event_time, "FMT1")
        ANSSorig_time == strftime(ANSStimeObj.at)
        ANSStimetoorigin == getTimeDelta(origin.update_time, ANSSorig_time)
        SA_inittimeObj == strptime(initial_timestamp, "FMT1")
        init == getTimeDelta(initial_timestamp, ANSSorig_time)
        peakM == getTimeDelta(peak_mag_timestamp, ANSSorig_time)
        final == getTimeDelta(timestamp, ANSSorig_time)
    IN IF origin.present /\ ~ANSStimeObj.ok THEN times_raised(ANSStimeObj.error)
       ELSE IF origin.present /\ origin.update /\ ~ANSStimetoorigin.ok THEN times_raised(ANSStimetoorigin.error)
       ELSE IF ~SA_inittimeObj.ok THEN times_raised(SA_inittimeObj.error)
       ELSE IF ~origin.present THEN [ok |-> TRUE, error |-> "", deltas |-> NoDeltas]
       ELSE IF ~init.ok THEN times_raised(init.error)
       ELSE IF ~peakM.ok THEN times_raised(peakM.error)
       ELSE IF ~final.ok THEN times_raised(final.error)
       ELSE [ok |-> TRUE, error |-> "",
             deltas |-> [ANSStimetoorigin |-> IF origin.update THEN ANSStimetoorigin.time_delta ELSE NoTime,
                         t_ANSSotime_SAalert_init |-> init.time_delta,
                         t_ANSSotime_SAalert_peakM |-> peakM.time_delta,
                         t_ANSSotime_SAalert_final |-> final.time_delta]]

NoRecord ==
    [ok |-> FALSE, error |-> "not called", initial_contours |-> <<>>, final_contours |-> <<>>,
     peak_contours |-> <<>>, deltas |-> NoDeltas, closestCities |-> <<>>]

str_raised(e) == [NoRecord EXCEPT !.error = e]

\* the event of the parse model in a record of this run
event_of(a) ==
    [initial_mag |-> 50, mag |-> 50, peak_mag |-> 50,
     ANSSmag |-> IF a.preferred_origin.present THEN 50 ELSE NoMag,
     initial |-> a.initial, final |-> a.final, peak |-> a.peak]

parse_json_str(a) ==
    LET m == event_of(a)
        values == parse_content(m, new_MMItoUse(MMIAlert, m))
        times == reconcile_times(a.preferred_origin, a.initial_timestamp,
                                 a.peak_mag_timestamp, a.timestamp)
        rest == finalizeShakeAlertValues(
                    [present |-> a.preferred_origin.present, at_zero |-> FALSE,
                     elapsed |-> times.deltas.t_ANSSotime_SAalert_init, above_one |-> FALSE],
                    a.stationDict, a.cities)
    IN IF ~values.ok THEN str_raised(values.error)
       ELSE IF ~times.ok THEN str_raised(times.error)
       ELSE IF ~rest.ok THEN str_raised(rest.error)
       ELSE [ok |-> TRUE, error |-> "", initial_contours |-> values.initial.contours,
             final_contours |-> values.final.contours, peak_contours |-> values.peak.contours,
             deltas |-> times.deltas, closestCities |-> rest.closestCities]

InitParseStr ==
    /\ call_args \in [preferred_origin : PreferredOrigins,
                      initial_timestamp : AlertTimes, peak_mag_timestamp : AlertTimes,
                      timestamp : AlertTimes,
                      initial : ContourLists, final : ContourLists, peak : ContourLists,
                      stationDict : StationDicts, cities : CityCatalogs]
    /\ call_ret = NoRecord
    /\ call_pc = "call"

ParseJSONStr ==
    /\ call_pc = "call"
    /\ call_ret' = parse_json_str(call_args)
    /\ call_pc' = IF call_ret'.ok THEN "returned" ELSE "raised"
    /\ UNCHANGED call_args
    /\ UNCHANGED CallFrame

-----------------------------------------------------------------------------
(* Queries on the loaded catalogs: PyCities.getCityList (PyCities.py 29-86)
   and getNumStationsInRange (EQCalculations.py 312-317), asked any number of
   times, in any order, of the same PyCities object and station dictionary. *)

\* the category lists finalizeShakeAlertValues asks with (ShakeAlertParser.py 224, 238)
CityQueries == { city_types_requested, promoted_types }

\* distanceKM of ShakeAlertParser.py 198-214
StationQueries == { 10, 100 }

\* A getCityList that takes the cities it selects out of the catalog.
self_cities_popped(cities, cats) ==
    LET st == select_cities(cities, cats)
    IN SelectSeq([i \in 1..Len(cities) |-> [at |-> i, values |-> cities[i]]],
                 LAMBDA e : \A k \in 1..Len(cats) : st.nearest_cities[k] # e.at)

\* self.cities after getCityList: the method reads self.cities (lines 39, 75-76)
\* and writes `nearest_cities`, `distances` and a new dict `cities` only
self_cities_after(cities, cats) ==
    [i \in 1..Len(cities) |-> [at |-> i, values |-> cities[i]]]

entries(numbered) == [i \in 1..Len(numbered) |-> numbered[i].values]

\* stationDict after getNumStationsInRange: only numStations is written (313-317)
stationDict_after(stationDict, distanceKM) == stationDict

InitQueries ==
    /\ call_args \in [cities : SeqsUpTo(CityKinds(MaxDist), MaxListed),
                      stationDict : SeqsUpTo(StationKinds, MaxRunStations)]
    /\ call_ret = [cities |-> call_args.cities, stationDict |-> call_args.stationDict,
                   city_lists |-> {}, station_counts |-> {}]
    /\ call_pc = "loaded"

QueryCityList ==
    /\ call_pc = "loaded"
    /\ \E cats \in CityQueries :
        call_ret' = [call_ret EXCEPT
                        !.cities = entries(self_cities_after(@, cats)),
                        !.city_lists = @ \cup { <<cats, getCityList(call_ret.cities, cats)>> }]
    /\ UNCHANGED <<call_args, call_pc>>
    /\ UNCHANGED CallFrame

QueryStations ==
    /\ call_pc = "loaded"
    /\ \E distanceKM \in StationQueries :
        call_ret' = [call_ret EXCEPT
                        !.stationDict = stationDict_after(@, distanceKM),
                        !.station_counts = @ \cup { <<distanceKM, getNumStationsInRange(call_ret.stationDict, distanceKM)>> }]
    /\ UNCHANGED <<call_args, call_pc>>
    /\ UNCHANGED CallFrame

NextQueries == QueryCityList \/ QueryStations

-----------------------------------------------------------------------------
(* The travel-time computations of a run and the velocity each one uses:
   getSWaveRadius (EQCalculations.py 238-250), the time to alert of a city
   (PyCities.py 58-73) and the alert circles of buildAlertMap (PDFCreate.py
   1256-1286, PyEventImage.py 109-114).  Velocities are hundredths of a km/s,
   the elapsed time whole seconds, depth and distance whole km, a radius
   tens of metres. *)

\* option 'vs' of section GENERAL of the properties file
VsOptions == {300, 355, 400}

\* s_near_source = 3.55 (EQCalculations.py 241, PyCities.py 62)
s_near_source == 355

\* radius_s = s_near_source * time_delta (EQCalculations.py 243-245)
getSWaveRadius(time_delta) == s_near_source * time_delta

\* PyEventImage.py 73-78 with the velocity it is passed
circle_radius(duration, dt, s_wave_velocity, depth) ==
    LET reach == (dt + duration) * s_wave_velocity
    IN IF reach > depth * 100 THEN isqrt(reach * reach - depth * depth * 10000) ELSE 0

circle_radii(mag, dt, s_wave_velocity, depth) ==
    [i \in 1..Len(radii_show(mag)) |->
        <<radii_show(mag)[i], circle_radius(radii_show(mag)[i], dt, s_wave_velocity, depth)>>]

NoTravelTimes == [sWaveRadius |-> NoTime, city_time |-> NoTime, alertcircles |-> <<>>]

InitTravel ==
    /\ call_args \in [vs : VsOptions, mag : {53, 60}, dt : 0..5, depth : {0, 8},
                      distance : {10, 100}]
    /\ call_ret = NoTravelTimes
    /\ call_pc = "call"

\* ShakeAlertParser.py 138-142 and 225-232
FinalizeTravelTimes ==
    /\ call_pc = "call"
    /\ call_ret' = [call_ret EXCEPT
                       !.sWaveRadius = getSWaveRadius(call_args.dt),
                       !.city_time = city_time_delta(call_args.depth, call_args.distance,
                                                     call_args.dt * 100)]
    /\ call_pc' = "parsed"
    /\ UNCHANGED call_args
    /\ UNCHANGED CallFrame

\* PDFCreate.py 1256-1269: s_wave_velocity=config.get("GENERAL", 'vs')
BuildAlertMap ==
    /\ call_pc = "parsed"
    /\ call_ret' = [call_ret EXCEPT
                       !.alertcircles = circle_radii(call_args.mag, call_args.dt, call_args.vs,
                                                     call_args.depth)]
    /\ call_pc' = "done"
    /\ UNCHANGED call_args
    /\ UNCHANGED CallFrame

NextTravel == FinalizeTravelTimes \/ BuildAlertMap

-----------------------------------------------------------------------------
(* The MMI of a raw contour as Get_polygons (ShakeAlertParser.py 452-465) and
   parse_gm_contours (405-410) read it.  Raw MMI values are tenths. *)
RawMMIs == {10, 15, 19, 20, 25, 40, 49, 90, 99, 100}

RawLists == SeqsUpTo([mmi : RawMMIs, polygon : {PolyBig, PolySmall}], MaxContours)

InitCoercion ==
    /\ call_args \in [gm_contours : RawLists]
    /\ call_ret = [allMMIpolys |-> <<>>, contours |-> <<>>]
    /\ call_pc = "call"

\* MMIlist = Get_polygons(initialGMcontours, opt_v) (line 590)
GetPolygons ==
    /\ call_pc = "call"
    /\ call_ret' = [call_ret EXCEPT !.allMMIpolys = Get_polygons(call_args.gm_contours)]
    /\ call_pc' = "listed"
    /\ UNCHANGED call_args
    /\ UNCHANGED CallFrame

\* JSONValues['initial_contours'] = parse_gm_contours(initialGMcontours) (line 615)
ParseGmContours ==
    /\ call_pc = "listed"
    /\ call_ret' = [call_ret EXCEPT !.contours = parse_gm_contours(call_args.gm_contours).contours]
    /\ call_pc' = "done"
    /\ UNCHANGED call_args
    /\ UNCHANGED CallFrame

NextCoercion == GetPolygons \/ ParseGmContours

-----------------------------------------------------------------------------
(* The contours drawEarthquakeImagesSection hands to the map renderers
   (PDFCreate.py 1228-1328). *)

\* lines 1229-1238
gmc_filter ==
    [mag_threshold |-> MagMapChange, min_mmi_small_event |-> MMISmall,
     min_mmi_large_event |-> MMIAlert]

GMRing(level) == [mmi |-> level, polygon |-> "P"]

\* the contours of a snapshot as ParseJSONContent stored them
SnapshotContours ==
    { <<>>, <<GMRing(3)>>, <<GMRing(4), GMRing(3), GMRing(2)>>, <<GMRing(5), GMRing(4)>> }

NotDrawn == [initial_contours |-> <<>>, peak_contours |-> <<>>, final_contours |-> <<>>]

\* the contour arguments of buildPolygonMap (lines 1304-1328)
polygon_map_contours(anss_origin_avail, values, initial_gm_contours, peak_gm_contours,
                     final_gm_contours) ==
    IF anss_origin_avail
    THEN [initial_contours |-> initial_gm_contours, peak_contours |-> peak_gm_contours,
          final_contours |-> final_gm_contours]
    ELSE [initial_contours |-> initial_gm_contours, peak_contours |-> values.peak_contours,
          final_contours |-> values.final_contours]

InitMaps ==
    /\ call_args \in [anss_origin_avail : BOOLEAN,
                      initial_mag : Mags, peak_mag : Mags, mag : Mags,
                      initial_contours : SnapshotContours, peak_contours : SnapshotContours,
                      final_contours : SnapshotContours]
    /\ call_ret = [initial_gm_contours |-> <<>>, peak_gm_contours |-> <<>>,
                   final_gm_contours |-> <<>>, alert_map |-> NotDrawn, polygon_map |-> NotDrawn]
    /\ call_pc = "call"

\* lines 1241-1252
FilterSnapshots ==
    /\ call_pc = "call"
    /\ call_ret' = [call_ret EXCEPT
            !.initial_gm_contours = filter_gm_contours(gmc_filter, call_args.initial_contours,
                                                       call_args.initial_mag),
            !.peak_gm_contours = filter_gm_contours(gmc_filter, call_args.peak_contours,
                                                    call_args.peak_mag),
            !.final_gm_contours = filter_gm_contours(gmc_filter, call_args.final_contours,
                                                     call_args.mag)]
    /\ call_pc' = "filtered"
    /\ UNCHANGED call_args
    /\ UNCHANGED CallFrame

\* lines 1254-1286: both branches pass initial_contours=initial_gm_contours
DrawAlertMap ==
    /\ call_pc = "filtered"
    /\ call_ret' = [call_ret EXCEPT
            !.alert_map = [NotDrawn EXCEPT !.initial_contours = call_ret.initial_gm_contours]]
    /\ call_pc' = "alertmap"
    /\ UNCHANGED call_args
    /\ UNCHANGED CallFrame

DrawPolygonMap ==
    /\ call_pc = "alertmap"
    /\ call_ret' = [call_ret EXCEPT
            !.polygon_map = polygon_map_contours(call_args.anss_origin_avail, call_args,
                                call_ret.initial_gm_contours, call_ret.peak_gm_contours,
                                call_ret.final_gm_contours)]
    /\ call_pc' = "done"
    /\ UNCHANGED call_args
    /\ UNCHANGED CallFrame

NextMaps == FilterSnapshots \/ DrawAlertMap \/ DrawPolygonMap

-----------------------------------------------------------------------------
(* The loop of point_in_poly, one iteration at a time (EQCalculations.py 35-44) *)

\* The three outer tests pass for the edge p1 -> p2 at a closed lower bound.
crossing_test_reached_closed(x, y, p1, p2) ==
    /\ y >= less(p1[2], p2[2])
    /\ y <= greater(p1[2], p2[2])
    /\ x <= greater(p1[1], p2[1])

\* lines 37-39: the three tests around the assignment and the crossing test
crossing_test_reached(x, y, p1, p2) ==
    /\ y > less(p1[2], p2[2])
    /\ y <= greater(p1[2], p2[2])
    /\ x <= greater(p1[1], p2[1])

NeverAssigned == 0 - 1

\* lines 32-35: n, inside and p1 are set, xints is not
InitEdges ==
    /\ \E l \in VertexLists, closed \in BOOLEAN, x, y \in GridValues :
        call_args = [x |-> x, y |-> y, poly |-> IF closed THEN Append(l, l[1]) ELSE l]
    /\ call_ret = [i |-> 0, p1 |-> call_args.poly[1], inside |-> FALSE,
                   xints |-> Unbound, assigned_in |-> NeverAssigned,
                   tested |-> FALSE, read |-> FALSE, horizontal |-> FALSE,
                   divided |-> FALSE, divisor |-> 0]
    /\ call_pc = "loop"

\* lines 36-44: the body for i, on the edge p1 -> poly[i % n]
EdgeIteration ==
    /\ call_pc = "loop"
    /\ call_ret.i <= Len(call_args.poly)
    /\ LET x == call_args.x
           y == call_args.y
           p1 == call_ret.p1
           p2 == call_args.poly[(call_ret.i % Len(call_args.poly)) + 1]
           reached == crossing_test_reached(x, y, p1, p2)
           assigns == reached /\ p1[2] # p2[2]
           reads == reached /\ p1[1] # p2[1]
           xints == IF assigns
                    THEN <<(y - p1[2]) * (p2[1] - p1[1]) + p1[1] * (p2[2] - p1[2]),
                           p2[2] - p1[2]>>
                    ELSE call_ret.xints
           toggles == reached /\ (p1[1] = p2[1] \/ le_xints(x, xints))
       IN /\ call_ret' =
                [i |-> call_ret.i + 1,
                 p1 |-> p2,
                 inside |-> IF toggles THEN ~call_ret.inside ELSE call_ret.inside,
                 xints |-> xints,
                 assigned_in |-> IF assigns THEN call_ret.i ELSE call_ret.assigned_in,
                 tested |-> reached,
                 read |-> reads,
                 horizontal |-> p1[2] = p2[2],
                 divided |-> assigns,
                 divisor |-> IF assigns THEN p2[2] - p1[2] ELSE 0]
          /\ call_pc' = IF reads /\ ~assigns /\ call_ret.assigned_in = NeverAssigned
                        THEN "raised" ELSE "loop"
    /\ UNCHANGED call_args
    /\ UNCHANGED CallFrame

\* line 46
ReturnInside ==
    /\ call_pc = "loop"
    /\ call_ret.i > Len(call_args.poly)
    /\ call_pc' = "done"
    /\ UNCHANGED <<call_args, call_ret>>
    /\ UNCHANGED CallFrame

NextEdges == EdgeIteration \/ ReturnInside

-----------------------------------------------------------------------------
(* build_init_FeatureCollection (PDFCreate.py 170-280), as export_to_geojson
   calls it (457-461) on the values of ParseJSONContent *)

\* The events whose export is followed: an initial message with contours, the
\* other two snapshots without.
ExportEvents ==
    { e \in EventsVarying("initial") :
        e.initial.present /\ e.final = Absent /\ e.peak = Absent }

NoFeature == [ok |-> FALSE, error |-> "", name |-> <<>>, geometry |-> <<>>]

\* lines 193-196: f'Initial MMI {gm_contour.mmi}' of the first contour handed in
init_poly_name(SAMessageValues, contours) == <<"Initial MMI", contours[1].mmi>>

\* lines 190-210: the polygon feature of the initial alert
build_init_FeatureCollection(SAMessageValues, contours) ==
    IF contours = <<>>
    THEN [NoFeature EXCEPT !.error = "UnboundLocalError"]
    ELSE [ok |-> TRUE, error |-> "",
          name |-> init_poly_name(SAMessageValues, contours),
          geometry |-> <<SAMessageValues.initial.polygonNumericList>>]

\* ParseJSONContent has returned the values of a first event.
InitInitFeature ==
    /\ \E m \in ExportEvents :
        /\ parse_content(m, new_MMItoUse(MMIAlert, m)).ok
        /\ call_args = [JSONdata |-> m,
                        SAMessageValues |-> parse_content(m, new_MMItoUse(MMIAlert, m))]
    /\ call_ret = NoFeature
    /\ call_pc = "call"

\* lines 457-461: contours=SAMessageValues.get('initial_contours')
BuildInitFeatureCollection ==
    /\ call_pc = "call"
    /\ call_ret' = build_init_FeatureCollection(call_args.SAMessageValues,
                                                call_args.SAMessageValues.initial.contours)
    /\ call_pc' = IF call_ret'.ok THEN "done" ELSE "raised"
    /\ UNCHANGED call_args
    /\ UNCHANGED CallFrame

-----------------------------------------------------------------------------
(* The per-city intensity of the report and the export: fMMIlist built by
   Get_polygons (ShakeAlertParser.py 622, 646), then getIntensityLevel on it
   (PDFCreate.py 404-417, 998-1005) *)

FinalMMIs == {20, 25, 30, 40, 100}

\* The final message's contours, in any order.
FinalContourLists ==
    SeqsUpTo([mmi : FinalMMIs, polygon : {PolyBig, PolySmall}], MaxContours)

InitCityIntensity ==
    /\ call_args \in [finalGMcontours : FinalContourLists]
    /\ call_ret = <<>>
    /\ call_pc = "idle"
    /\ arg_MMIlist = <<>>
    /\ point \in [lat : GridValues, lon : GridValues]
    /\ getRomanNum = FALSE      \* both call sites leave the default
    /\ intensity = PyStr("")
    /\ int_pc = "raw"

\* fMMIlist = Get_polygons(finalGMcontours, opt_v); JSONValues['fMMIlist'] = fMMIlist
StoreFMMIlist ==
    /\ int_pc = "raw"
    /\ arg_MMIlist' = Get_polygons(call_args.finalGMcontours)
    /\ int_pc' = "call"
    /\ UNCHANGED <<point, getRomanNum, intensity>>
    /\ UNCHANGED <<call_args, call_ret, call_pc>>
    /\ UNCHANGED <<fltVars, catalog, clVars, finVars, parseVars>>

NextCityIntensity == StoreFMMIlist \/ GetIntensityLevel

-----------------------------------------------------------------------------
(* Specifications *)

InitSpecFilter == InitFilter /\ catalog = <<>> /\ IdleCityList /\ IdleFinalize /\ IdleParse /\ IdleIntensity /\ IdleCall

SpecFilter ==
    InitSpecFilter /\ [][FilterGmContours]_vars

InitSpecCityList == InitCityList /\ IdleFilter /\ IdleFinalize /\ IdleParse /\ IdleIntensity /\ IdleCall

SpecCityList ==
    InitSpecCityList /\ [][GetCityList]_vars

InitSpecFinalize == InitFinalize /\ IdleFilter /\ IdleCityList /\ IdleParse /\ IdleIntensity /\ IdleCall

SpecFinalize ==
    InitSpecFinalize /\ [][NextFinalize]_vars

InitSpecParse == InitParse /\ IdleFilter /\ catalog = <<>> /\ IdleCityList /\ IdleFinalize /\ IdleIntensity /\ IdleCall

SpecParse == InitSpecParse /\ [][NextParse]_vars

InitSpecIntensity ==
    InitIntensity /\ IdleFilter /\ catalog = <<>> /\ IdleCityList /\ IdleFinalize /\ IdleParse /\ IdleCall

SpecIntensity == InitSpecIntensity /\ [][GetIntensityLevel]_vars

InitSpecPointInPoly == InitPointInPoly /\ IdleProgram

SpecPointInPoly == InitSpecPointInPoly /\ [][PointInPoly]_vars

InitSpecCompass == InitCompass /\ IdleProgram

SpecCompass == InitSpecCompass /\ [][NextCompass]_vars

InitSpecAlertCircle == InitAlertCircle /\ IdleProgram

SpecAlertCircle == InitSpecAlertCircle /\ [][GetAlertCircleParams]_vars

InitSpecRound == InitRound /\ IdleProgram

SpecRound == InitSpecRound /\ [][RoundHalfUp]_vars

InitSpecStations == InitStations /\ IdleProgram

SpecStations == InitSpecStations /\ [][NextStations]_vars

InitSpecCityTime == InitCityTime /\ IdleProgram

SpecCityTime == InitSpecCityTime /\ [][NextCityTime]_vars

InitSpecTimeDelta == InitTimeDelta /\ IdleProgram

SpecTimeDelta == InitSpecTimeDelta /\ [][GetTimeDelta]_vars

InitSpecRun == InitRun /\ IdleProgram

SpecRun == InitSpecRun /\ [][NextRun]_vars

InitSpecCatalogs == InitCatalogs /\ IdleProgram

SpecCatalogs == InitSpecCatalogs /\ [][NextCatalogs]_vars

InitSpecParseStr == InitParseStr /\ IdleProgram

SpecParseStr == InitSpecParseStr /\ [][ParseJSONStr]_vars

InitSpecQueries == InitQueries /\ IdleProgram

SpecQueries == InitSpecQueries /\ [][NextQueries]_vars

InitSpecTravel == InitTravel /\ IdleProgram

SpecTravel == InitSpecTravel /\ [][NextTravel]_vars

InitSpecCoercion == InitCoercion /\ IdleProgram

SpecCoercion == InitSpecCoercion /\ [][NextCoercion]_vars

InitSpecMaps == InitMaps /\ IdleProgram

SpecMaps == InitSpecMaps /\ [][NextMaps]_vars

InitSpecEdges == InitEdges /\ IdleProgram
SpecEdges == InitSpecEdges /\ [][NextEdges]_vars

InitSpecInitFeature == InitInitFeature /\ IdleProgram
SpecInitFeature == InitSpecInitFeature /\ [][BuildInitFeatureCollection]_vars

InitSpecCityIntensity ==
    InitCityIntensity /\ IdleFilter /\ catalog = <<>> /\ IdleCityList /\ IdleFinalize /\ IdleParse
SpecCityIntensity == InitSpecCityIntensity /\ [][NextCityIntensity]_vars

\* The run is sequential: once in the re-ordering loop it keeps executing it.
SpecFinalizeFair ==
    /\ SpecFinalize
    /\ WF_vars(SortSwap)
    /\ WF_vars(SortExit)

-----------------------------------------------------------------------------
(* C4: whenever getCityList is called, each slot holds the minimum-distance *)
(* catalog city of the slot's category among the cities not selected at an *)
(* earlier slot of the same category, whatever the scan order; a category   *)
(* requested k times with at least k cities in the catalog gets its k       *)
(* nearest cities.                                                          *)

CitiesOf(cat) == { c \in 1..Len(catalog) : catalog[c].category = cat }

SlotsOf(cats, cat) == { k \in 1..Len(cats) : cats[k] = cat }

EnoughCities(cats) ==
    \A k \in 1..Len(cats) : Cardinality(CitiesOf(cats[k])) >= Cardinality(SlotsOf(cats, cats[k]))

EarlierSameCategory(cats, sel, k) ==
    { sel[i].name : i \in { i \in 1..(k - 1) : cats[i] = cats[k] } }

NearestRemaining(cats, sel, k) ==
    /\ sel[k].name \in CitiesOf(cats[k]) \ EarlierSameCategory(cats, sel, k)
    /\ \A c \in CitiesOf(cats[k]) \ EarlierSameCategory(cats, sel, k) :
          catalog[sel[k].name].dist <= catalog[c].dist

CityListNearest ==
    cl_pc = "done" =>
        /\ EnoughCities(categories) => city_result.ok
        /\ city_result.ok =>
              /\ Len(city_result.cities) = Len(categories)
              /\ \A k \in 1..Len(categories) :
                    NearestRemaining(categories, city_result.cities, k)

-----------------------------------------------------------------------------
(* C5: the selection for [C,B,B,A] is re-run, once, with [B,B,B,A] exactly  *)
(* when its second city is strictly closer than its first; the re-run list  *)
(* then starts with a B city and holds no C city; otherwise the first       *)
(* selection is kept as it is.  getCityList is called at most twice.        *)

SecondCloser == first_cities[2].distance < first_cities[1].distance

PromotionRule ==
    /\ calls <= 2
    /\ (fin_pc = "error" /\ calls = 2) => SecondCloser
    /\ fin_pc \in {"sort", "store", "done"} =>
          /\ calls = (IF SecondCloser THEN 2 ELSE 1)
          /\ IF SecondCloser
             THEN /\ selected[1].category = "B"
                  /\ catalog[selected[1].name].category = "B"
                  /\ \A i \in 1..Len(closest_cities) :
                        /\ closest_cities[i].category # "C"
                        /\ catalog[closest_cities[i].name].category # "C"
             ELSE /\ selected = first_cities
                  /\ Range(closest_cities) = Range(first_cities)
    /\ fin_pc \in {"sort", "store"} => closest_cities = selected

PromotionWitness ==
    /\ fin_pc = "done"
    /\ calls = 2
    /\ first_cities[1].category = "C"
    /\ first_cities[2].distance < first_cities[1].distance

-----------------------------------------------------------------------------
(* C6: the re-ordering loop terminates, and on exit closestCities is a      *)
(* permutation of the selected cities in non-decreasing order of distance.  *)

IsPermutation(s, t) ==
    /\ Len(s) = Len(t)
    /\ \A e \in Range(s) \cup Range(t) :
          Cardinality({ i \in 1..Len(s) : s[i] = e }) = Cardinality({ i \in 1..Len(t) : t[i] = e })

NonDecreasing(d) == \A i \in 1..(Len(d) - 1) : d[i].distance <= d[i + 1].distance

ReorderSorted ==
    /\ fin_pc = "store" => IsPermutation(city_keys, keys(selected))
    /\ fin_pc = "done" => IsPermutation(closest_cities, selected) /\ NonDecreasing(closest_cities)

-----------------------------------------------------------------------------
(* C7: the re-ordering is stable: two selected cities at the same distance  *)
(* keep their selection order in closestCities.                             *)

PositionIn(d, name) == CHOOSE i \in 1..Len(d) : d[i].name = name

ReorderStable ==
    fin_pc = "done" =>
        \A i, j \in 1..Len(selected) :
            (i < j /\ selected[i].distance = selected[j].distance) =>
                PositionIn(closest_cities, selected[i].name)
                    < PositionIn(closest_cities, selected[j].name)

-----------------------------------------------------------------------------
(* C8: a requested slot with no selectable city does not make the run fail: *)
(* getCityList returns and promotion and re-ordering go on without the slot. *)

MissingSlot ==
    \/ ~EnoughCities(city_types_requested)
    \/ calls = 2 /\ ~EnoughCities(promoted_types)

MissingSlotTolerated == MissingSlot => fin_pc # "error"

-----------------------------------------------------------------------------
(* C1: filter_gm_contours returns exactly the order-preserving subsequence *)
(* of the contours with mmi >= T, T being min_mmi_large_event when         *)
(* event_mag >= mag_threshold and min_mmi_small_event otherwise, and the   *)
(* input list is left as it was passed.                                    *)

FilterThreshold ==
    IF event_mag < flt.mag_threshold THEN flt.min_mmi_small_event
    ELSE flt.min_mmi_large_event

KeepsThreshold(c) == c.mmi >= FilterThreshold

FilterExact ==
    flt_pc = "done" =>
        /\ filtered = SelectSeq(arg_contours, KeepsThreshold)
        /\ gm_contours = arg_contours

FilterWitness ==
    /\ flt_pc = "done"
    /\ event_mag = flt.mag_threshold
    /\ Len(filtered) = 1
    /\ Len(arg_contours) = 2
    /\ arg_contours[2].mmi = flt.min_mmi_large_event
    /\ flt.min_mmi_small_event < flt.min_mmi_large_event
    /\ arg_contours[1].mmi = flt.min_mmi_small_event

-----------------------------------------------------------------------------
(* C2: the contour shown for the initial snapshot is the one at the target
   level when that level is among the snapshot's contours, and the contour of
   the least level present otherwise, where the target level is MMISmall when
   the snapshot's magnitude is below MagMapChange and MMIAlert otherwise. *)
LevelsOf(raw) == { mmi_truncate(raw[i].mmi) : i \in 1..Len(raw) }

TargetLevel(magnitude) == IF magnitude < MagMapChange THEN MMISmall ELSE MMIAlert

SelectedLevel(raw, magnitude) ==
    IF TargetLevel(magnitude) \in LevelsOf(raw) THEN TargetLevel(magnitude)
    ELSE min(LevelsOf(raw))

DisplayContourRule ==
    (parse_pc = "returned" /\ msg.initial.present) =>
        LET level == SelectedLevel(msg.initial.list, msg.initial_mag)
            shown == JSONValues.initial.polygonList[1]
        IN /\ JSONValues.initial.MMItoShow = level
           /\ shown[1] = level
           /\ \E i \in 1..Len(msg.initial.list) :
                /\ mmi_truncate(msg.initial.list[i].mmi) = level
                /\ shown[2] = latlon_to_numeric(msg.initial.list[i].polygon, FALSE)

(* C3: the levels kept in the final and in the peak-magnitude polygon list are
   the levels of that snapshot at or above the threshold chosen by that
   snapshot's own magnitude. *)
ShownLevels(polygonList) == { polygonList[i][1] : i \in 1..Len(polygonList) }

OwnLevels(raw, magnitude) == { l \in LevelsOf(raw) : l >= TargetLevel(magnitude) }

SnapshotOwnThreshold ==
    parse_pc = "returned" =>
        /\ msg.final.present =>
            ShownLevels(JSONValues.final.polygonList) = OwnLevels(msg.final.list, msg.mag)
        /\ msg.peak.present =>
            ShownLevels(JSONValues.peak.polygonList) = OwnLevels(msg.peak.list, msg.peak_mag)

(* C10: a contour is constructed exactly when the first coordinate of its
   polygon equals the last in both fields as written; otherwise the parse
   raises and leaves no contour, and a constructed contour holds the polygon
   unaltered, so every contour of every snapshot is closed. *)
Closed(polygon) == polygon[1] = polygon[Len(polygon)]

Snapshots == {"initial", "final", "peak"}

AllClosed(m) ==
    \A s \in Snapshots : \A i \in 1..Len(m[s].list) : Closed(m[s].list[i].polygon)

Unaltered(raw, contours) ==
    /\ Len(contours) = Len(raw)
    /\ \A i \in 1..Len(raw) :
        /\ contours[i].polygon = raw[i].polygon
        /\ contours[i].mmi = mmi_truncate(raw[i].mmi)
        /\ Closed(contours[i].polygon)

ContourClosure ==
    /\ parse_pc = "returned" =>
        /\ AllClosed(msg)
        /\ \A s \in Snapshots : Unaltered(msg[s].list, JSONValues[s].contours)
    /\ parse_pc = "raised" =>
        /\ JSONValues.error = "ValueError"
        /\ \A s \in Snapshots : JSONValues[s].contours = <<>>
        /\ ~AllClosed(msg) \/ (msg.initial.present /\ msg.initial.list = <<>>)
    /\ (parse_pc = "raised" /\ AllClosed(msg)) => msg.initial.list = <<>>
    /\ (parse_pc \in {"returned", "raised"} /\ ~AllClosed(msg)) => parse_pc = "raised"

ContourClosureWitness ==
    /\ parse_pc = "returned"
    /\ Len(JSONValues.final.contours) = 2
    /\ Len(JSONValues.initial.contours) > 0

-----------------------------------------------------------------------------
(* C9: getIntensityLevel returns the MMI of the first pair, in the given order,
   whose polygon contains the point, whatever later pairs contain, and the
   sentinel "1" ("<II" in roman numerals) when no polygon contains it. *)
Ring(polygon_coords) == lonlat_polygon(polygon_coords)

Edges(poly) ==
    { <<poly[i], poly[(i % Len(poly)) + 1]>> : i \in 1..Len(poly) }
        \ { <<poly[i], poly[i]>> : i \in 1..Len(poly) }

Side(e, x, y) ==
    (e[2][1] - e[1][1]) * (y - e[1][2]) - (e[2][2] - e[1][2]) * (x - e[1][1])

\* Strictly inside a convex ring: on the same side of every edge.
StrictlyInside(poly, x, y) ==
    \/ \A e \in Edges(poly) : Side(e, x, y) > 0
    \/ \A e \in Edges(poly) : Side(e, x, y) < 0

OnBoundary(poly, x, y) ==
    \E e \in Edges(poly) :
        /\ Side(e, x, y) = 0
        /\ x >= less(e[1][1], e[2][1]) /\ x <= greater(e[1][1], e[2][1])
        /\ y >= less(e[1][2], e[2][2]) /\ y <= greater(e[1][2], e[2][2])

Sentinel == IF getRomanNum THEN PyStr("<II") ELSE PyStr("1")

Returned(MMIval) == IF getRomanNum THEN intensityRomanNumeral(MMIval) ELSE PyInt(MMIval)

FirstOf(S) == CHOOSE i \in S : \A j \in S : i <= j

Hits == { i \in 1..Len(arg_MMIlist) :
            point_in_poly(point.lon, point.lat, Ring(arg_MMIlist[i][2])).inside }

Containing == { i \in 1..Len(arg_MMIlist) :
                  StrictlyInside(Ring(arg_MMIlist[i][2]), point.lon, point.lat) }

OffBoundaries ==
    \A i \in 1..Len(arg_MMIlist) : ~OnBoundary(Ring(arg_MMIlist[i][2]), point.lon, point.lat)

IntensityFirstMatch ==
    int_pc = "done" =>
        /\ intensity = IF Hits = {} THEN Sentinel ELSE Returned(arg_MMIlist[FirstOf(Hits)][1])
        /\ OffBoundaries =>
            intensity = IF Containing = {} THEN Sentinel
                        ELSE Returned(arg_MMIlist[FirstOf(Containing)][1])

\* The point lies in both polygons of the list and the later one has another MMI.
IntensityWitness ==
    /\ int_pc = "done"
    /\ OffBoundaries
    /\ Containing = {1, 2}
    /\ arg_MMIlist[1][1] < arg_MMIlist[2][1]
    /\ intensity = Returned(arg_MMIlist[1][1])

-----------------------------------------------------------------------------
(* C11: for every simple polygon, in either orientation, point_in_poly is
   true at every point strictly inside it and false at every point outside
   its bounding box. *)
Orient(a, b, c) == (b[1] - a[1]) * (c[2] - a[2]) - (b[2] - a[2]) * (c[1] - a[1])

Within(a, b, c) ==
    /\ c[1] >= less(a[1], b[1]) /\ c[1] <= greater(a[1], b[1])
    /\ c[2] >= less(a[2], b[2]) /\ c[2] <= greater(a[2], b[2])

Opposite(m, n) == (m > 0 /\ n < 0) \/ (m < 0 /\ n > 0)

\* The segments a-b and c-d cross properly.
Crosses(a, b, c, d) ==
    /\ Opposite(Orient(a, b, c), Orient(a, b, d))
    /\ Opposite(Orient(c, d, a), Orient(c, d, b))

\* The segments a-b and c-d have a point in common.
Touches(a, b, c, d) ==
    \/ Crosses(a, b, c, d)
    \/ Orient(a, b, c) = 0 /\ Within(a, b, c)
    \/ Orient(a, b, d) = 0 /\ Within(a, b, d)
    \/ Orient(c, d, a) = 0 /\ Within(c, d, a)
    \/ Orient(c, d, b) = 0 /\ Within(c, d, b)

\* The ring without a repeated closing vertex.
Open(poly) == IF poly[1] = poly[Len(poly)] THEN SubSeq(poly, 1, Len(poly) - 1) ELSE poly

Vertex(ring, i) == ring[((i - 1) % Len(ring)) + 1]

\* No two edges meet except neighbours at their common vertex, without folding back.
Simple(poly) ==
    LET ring == Open(poly)
        n == Len(ring)
    IN /\ n >= 3
       /\ \A i \in 1..n :
            LET a == Vertex(ring, i)
                b == Vertex(ring, i + 1)
                c == Vertex(ring, i + 2)
            IN Orient(a, b, c) # 0
       /\ \A i, j \in 1..n :
            (i < j /\ j # i + 1 /\ ~(i = 1 /\ j = n)) =>
                ~Touches(Vertex(ring, i), Vertex(ring, i + 1),
                         Vertex(ring, j), Vertex(ring, j + 1))

\* A point far away in a direction that meets no lattice point on the way.
FarFrom(x, y) == <<x + 100, y + 1>>

\* Off the boundary, with an odd number of edges between the point and far away.
InsidePolygon(poly, x, y) ==
    LET ring == Open(poly)
        crossed == { i \in 1..Len(ring) :
                       Crosses(<<x, y>>, FarFrom(x, y), Vertex(ring, i), Vertex(ring, i + 1)) }
    IN /\ ~OnBoundary(ring, x, y)
       /\ Cardinality(crossed) % 2 = 1

OutsideBox(poly, x, y) ==
    \/ \A i \in 1..Len(poly) : x < poly[i][1]
    \/ \A i \in 1..Len(poly) : x > poly[i][1]
    \/ \A i \in 1..Len(poly) : y < poly[i][2]
    \/ \A i \in 1..Len(poly) : y > poly[i][2]

Clockwise(poly) ==
    LET ring == Open(poly)
        twice_area == [i \in 1..Len(ring) |->
                         Vertex(ring, i)[1] * Vertex(ring, i + 1)[2]
                         - Vertex(ring, i + 1)[1] * Vertex(ring, i)[2]]
        sum[i \in 0..Len(ring)] == IF i = 0 THEN 0 ELSE sum[i - 1] + twice_area[i]
    IN sum[Len(ring)] < 0

-----------------------------------------------------------------------------
(* C12: for every bearing b of [0, 360) both copies of get_compass_direction
   return the label at index floor(((b - 22.5) mod 360) / 45) of
   [NE, E, SE, S, SW, W, NW, N], an index of 0..7; each boundary belongs to
   the bin it opens and 0 is N. *)
BinIndex(b) == ((b - (45 * Unit) \div 2) % (360 * Unit)) \div (45 * Unit)

BinLabel(b) == [ok |-> TRUE, error |-> "", label |-> bearings[BinIndex(b) + 1]]

CompassLabel ==
    /\ call_ret.eq # NotCalled =>
        call_ret.eq = BinLabel(call_args.compass_bearing_degrees)
    /\ call_ret.py # NotCalled =>
        call_ret.py = BinLabel(call_args.compass_bearing_degrees)

-----------------------------------------------------------------------------
(* C13: get_alert_circle_params returns a mapping with keys 0, 10, 20 for an
   initial magnitude below 6.0 and 0, 10, 20, 30 otherwise, in ascending
   order; the radius of bin t is 0 when (dt + t) * velocity <= depth and the
   positive 1000 * sqrt(((dt + t) * velocity)^2 - depth^2) otherwise, so the
   radii do not decrease with t for a positive velocity. *)
Reach(t) == (call_args.init_sa_to_anss_dt + t) * call_args.s_wave_velocity

BinRadius(t) ==
    IF Reach(t) <= call_args.anss_depth THEN 0
    ELSE isqrt((Reach(t) * Reach(t) - call_args.anss_depth * call_args.anss_depth) * 10000)

AlertCircleParams ==
    call_pc = "done" =>
        /\ call_ret.ok
        /\ [i \in 1..Len(call_ret.radii) |-> call_ret.radii[i][1]]
             = (IF call_args.init_sa_mag < 60 THEN <<0, 10, 20>> ELSE <<0, 10, 20, 30>>)
        /\ \A i \in 1..Len(call_ret.radii) :
            /\ call_ret.radii[i][2] = BinRadius(call_ret.radii[i][1])
            /\ Reach(call_ret.radii[i][1]) > call_args.anss_depth => call_ret.radii[i][2] > 0
        /\ \A i, j \in 1..Len(call_ret.radii) :
            i < j => call_ret.radii[i][2] <= call_ret.radii[j][2]

-----------------------------------------------------------------------------
(* C14: round_half_up(num, precision) is floor(num * 10^precision + 1/2) /
   10^precision for every input, a value halfway between two results going
   to the larger one for both signs, with precision 0 when it is left out. *)
HalfUp(num, precision) ==
    LET scale == 10 ^ precision
    IN fdiv(of_int((2 * num * scale + Unit) \div (2 * Unit)), of_int(scale))

RoundHalfUpExact ==
    call_pc = "done" => call_ret.value = HalfUp(call_args.num, call_args.precision)

-----------------------------------------------------------------------------
(* C15: getNumStationsInRange returns the number of catalog entries at a
   distance of at most r from the point, a station at exactly r included, so
   the 10 km count is at most the 100 km count and both at most the size of
   the catalog. *)
InRange(r) ==
    Cardinality({ i \in 1..Len(call_args.stationDict) : call_args.stationDict[i].dist <= r })

StationCount ==
    /\ call_pc # "raised"
    /\ call_ret.numStationsIn10KM # NoCount => call_ret.numStationsIn10KM.n = InRange(10)
    /\ call_pc = "done" =>
        /\ call_ret.numStationsIn100KM.n = InRange(100)
        /\ call_ret.numStationsIn10KM.n <= call_ret.numStationsIn100KM.n
        /\ call_ret.numStationsIn100KM.n <= Len(call_args.stationDict)

-----------------------------------------------------------------------------
(* C16: the 'time' of a city is max(S-wave travel time - elapsed time, 0)
   with travel time sqrt(depth^2 + distance^2) / velocity: never negative, 0
   whenever the travel time is at or below the elapsed time, and not greater
   for a greater elapsed time. *)
TravelTime == (isqrt((call_args.depth ^ 2 + call_args.distance ^ 2) * 10000) * 100) \div 355

TimeToAlert ==
    /\ call_pc \in {"again", "done"} =>
        /\ call_ret.time >= 0
        /\ TravelTime <= call_args.time_delta => call_ret.time = 0
        /\ TravelTime > call_args.time_delta => call_ret.time = TravelTime - call_args.time_delta
    /\ call_pc = "done" =>
        /\ call_ret.later >= 0
        /\ call_ret.later <= call_ret.time

\* The S wave has passed the city by the second elapsed time but not by the first.
TimeToAlertWitness ==
    /\ call_pc = "done"
    /\ call_args.distance > 0
    /\ call_ret.time > 0
    /\ call_args.later > TravelTime
    /\ call_ret.later = 0

-----------------------------------------------------------------------------
(* C17: getTimeDelta accepts three encodings, each with fractional seconds
   ('T'-separated, space-separated, space-separated with a "(UTC)" suffix);
   for an input in any other form the call raises and returns no number, and
   for accepted inputs it returns the signed difference alert - origin. *)
WithFraction(ts) ==
    /\ ts.frac
    /\ \/ ts.sep = "T" /\ ts.suffix = ""
       \/ ts.sep = " " /\ ts.suffix = ""
       \/ ts.sep = " " /\ ts.suffix = " (UTC)"

WholeSeconds(ts) == ~ts.frac /\ ts.sep \in {"T", " "} /\ ts.suffix = ""

Instant(ts) == ts.secs * 1000 + ts.ms

TimeDeltaThreeEncodings ==
    call_pc = "done" =>
        IF WithFraction(call_args.alert_time) /\ WithFraction(call_args.origin_time)
        THEN call_ret = [ok |-> TRUE, error |-> "",
                         time_delta |-> Instant(call_args.alert_time)
                                        - Instant(call_args.origin_time)]
        ELSE ~call_ret.ok

(* C17, as the code has it: the 'T'-separated and the space-separated encoding
   are accepted without fractional seconds as well. *)
Accepted(ts) == WithFraction(ts) \/ WholeSeconds(ts)

TimeDeltaEncodings ==
    call_pc = "done" =>
        IF Accepted(call_args.alert_time) /\ Accepted(call_args.origin_time)
        THEN call_ret = [ok |-> TRUE, error |-> "",
                         time_delta |-> Instant(call_args.alert_time)
                                        - Instant(call_args.origin_time)]
        ELSE ~call_ret.ok /\ call_ret.error \in {"ValueError", "UnboundLocalError"}

\* An alert in whole seconds before an origin with a "(UTC)" suffix.
TimeDeltaWitness ==
    /\ call_pc = "done"
    /\ WholeSeconds(call_args.alert_time)
    /\ call_args.origin_time.suffix = " (UTC)"
    /\ call_ret.ok
    /\ call_ret.time_delta < 0

-----------------------------------------------------------------------------
(* C18: when the record has no preferred_origin, finalizeShakeAlertValues
   completes without error, none of the accuracy-comparison values is set,
   the station counts and the city ranking are taken around the initial
   ShakeAlert location with elapsed time 0, and the run ends with the report
   written and the GeoJSON export skipped. *)
NoOriginValues ==
    /\ call_ret.ok
    /\ call_ret.set \cap (time_keys \cup location_keys) = {}
    /\ call_ret.stations_around = "initial"
    /\ call_ret.cities_around = "initial"
    /\ call_ret.delta = 0

NoOriginRun ==
    ~call_args.origin.present =>
        /\ call_pc # "raised"
        /\ call_pc # "call" => NoOriginValues
        /\ call_pc = "done" => call_ret.pdf /\ ~call_ret.geojson

-----------------------------------------------------------------------------
(* C19: loading a catalog file, the city catalog or the station catalog,
   never aborts on a malformed line: the malformed lines are skipped and
   every well-formed line before and after them is in the loaded catalog. *)
WellFormed(line) ==
    IF call_args.file = "cityList"
    THEN line.fields = 5 /\ line.numeric /\ ~line.header
    ELSE line.words >= 6 /\ line.numeric /\ ~line.comment /\ ~line.newline

RECURSIVE WellFormedLines(_)
WellFormedLines(i) ==
    IF i > Len(call_args.lines) THEN <<>>
    ELSE IF WellFormed(call_args.lines[i]) THEN <<i>> \o WellFormedLines(i + 1)
    ELSE WellFormedLines(i + 1)

CatalogLoadSkipsMalformed ==
    call_pc # "call" =>
        /\ call_ret.ok
        /\ call_ret.loaded = WellFormedLines(1)

-----------------------------------------------------------------------------
(* C20: if a contour of any of the three snapshots has an unclosed polygon,
   or a timestamp used in the time reconciliation cannot be parsed, parsing
   ends in an error and no record is returned: no values and no contours of
   the other snapshots come back. *)
UnclosedContour ==
    \E s \in Snapshots : \E i \in 1..Len(call_args[s].list) :
        ~Closed(call_args[s].list[i].polygon)

\* 'T'-separated with a fraction: what the alert time and the origin time are read with
IsoWithFraction(ts) == ts.sep = "T" /\ ts.frac /\ ts.suffix = ""

UnparseableTimestamp ==
    \/ ~IsoWithFraction(call_args.initial_timestamp)
    \/ /\ call_args.preferred_origin.present
       /\ \/ ~IsoWithFraction(call_args.preferred_origin.event_time)
          \/ call_args.preferred_origin.update /\ ~Accepted(call_args.preferred_origin.update_time)
          \/ ~Accepted(call_args.peak_mag_timestamp)
          \/ ~Accepted(call_args.timestamp)

NoPartialOutput ==
    (call_pc # "call" /\ (UnclosedContour \/ UnparseableTimestamp)) =>
        /\ call_pc = "raised"
        /\ call_ret.error \in {"ValueError", "UnboundLocalError"}
        /\ call_ret.initial_contours = <<>>
        /\ call_ret.final_contours = <<>>
        /\ call_ret.peak_contours = <<>>
        /\ call_ret.deltas = NoDeltas
        /\ call_ret.closestCities = <<>>

\* The peak-magnitude timestamp is the one thing wrong with the record.
NoPartialOutputWitness ==
    /\ call_pc = "raised"
    /\ ~UnclosedContour
    /\ call_args.initial.present /\ call_args.final.present
    /\ call_args.preferred_origin.present
    /\ IsoWithFraction(call_args.initial_timestamp)
    /\ IsoWithFraction(call_args.preferred_origin.event_time)
    /\ ~Accepted(call_args.peak_mag_timestamp)
    /\ Accepted(call_args.timestamp)
    /\ call_args.stationDict = <<>>
    /\ call_args.cities # <<>>
    /\ call_ret.error = "UnboundLocalError"

-----------------------------------------------------------------------------
(* C21: after loading, no query changes a catalog: whatever getCityList and
   getNumStationsInRange calls have been made, PyCities.cities and the
   station dictionary are as they were loaded, and a query repeated with the
   same arguments has returned the same result every time. *)
OneResultEach(log) == \A a \in log, b \in log : a[1] = b[1] => a[2] = b[2]

-----------------------------------------------------------------------------
(* C22: the configured S-wave velocity is the velocity of every travel-time
   computation: the S-wave radius, a city's time to alert and the alert-circle
   radii of a run are those the configured value gives. *)
TimeAtVelocity(v) ==
    LET t == (slant_dist(call_args.depth, call_args.distance) * 100) \div v - call_args.dt * 100
    IN IF t > 0 THEN t ELSE 0

CircleAtVelocity(v, duration) ==
    LET reach == (call_args.dt + duration) * v
    IN IF reach > call_args.depth * 100
       THEN isqrt(reach * reach - call_args.depth * call_args.depth * 10000) ELSE 0

ConfiguredVelocityUsed ==
    /\ call_pc \in {"parsed", "done"} =>
        /\ call_ret.sWaveRadius = call_args.vs * call_args.dt
        /\ call_ret.city_time = TimeAtVelocity(call_args.vs)
    /\ call_pc = "done" =>
        \A i \in 1..Len(call_ret.alertcircles) :
            call_ret.alertcircles[i][2] = CircleAtVelocity(call_args.vs, call_ret.alertcircles[i][1])

-----------------------------------------------------------------------------
(* C23: for a raw MMI from 1 to 9, whole or with a fractional part, the
   parsed MMI is the integer part of the value, the raw value 10 is parsed as
   1, and Get_polygons and parse_gm_contours give every raw contour the same
   integer MMI. *)
IntegerPart(raw) == IF raw = 100 THEN 1 ELSE raw \div 10

Times(l, x) == Cardinality({ i \in 1..Len(l) : l[i] = x })

MMICoercion ==
    LET raw == call_args.gm_contours
        expected == [i \in 1..Len(raw) |-> <<IntegerPart(raw[i].mmi), raw[i].polygon>>]
    IN /\ call_pc \in {"listed", "done"} =>
            /\ Len(call_ret.allMMIpolys) = Len(raw)
            /\ \A i \in 1..Len(raw) :
                  Times(call_ret.allMMIpolys, expected[i]) = Times(expected, expected[i])
       /\ call_pc = "done" =>
            /\ Len(call_ret.contours) = Len(raw)
            /\ \A i \in 1..Len(raw) :
                  /\ call_ret.contours[i].mmi = IntegerPart(raw[i].mmi)
                  /\ call_ret.contours[i].polygon = raw[i].polygon

\* A contour of MMI 10 and one of MMI 4.9 have been read by both.
MMICoercionWitness ==
    /\ call_pc = "done"
    /\ Len(call_args.gm_contours) = 2
    /\ call_args.gm_contours[1].mmi = 100
    /\ call_args.gm_contours[2].mmi = 49
    /\ call_ret.contours[1].mmi = 1
    /\ call_ret.allMMIpolys[1][1] = 4

-----------------------------------------------------------------------------
(* C24: every contour handed to buildAlertMap and buildPolygonMap for a
   snapshot meets the two-tier threshold taken with that snapshot's own
   magnitude, with the authoritative origin and without it. *)
MeetsThreshold(c, snapshot_mag) ==
    c.mmi >= (IF snapshot_mag >= MagMapChange THEN MMIAlert ELSE MMISmall)

AllMeet(contours, snapshot_mag) ==
    \A i \in 1..Len(contours) : MeetsThreshold(contours[i], snapshot_mag)

HandedContoursMeetThreshold ==
    /\ AllMeet(call_ret.alert_map.initial_contours, call_args.initial_mag)
    /\ AllMeet(call_ret.polygon_map.initial_contours, call_args.initial_mag)
    /\ AllMeet(call_ret.polygon_map.peak_contours, call_args.peak_mag)
    /\ AllMeet(call_ret.polygon_map.final_contours, call_args.mag)

-----------------------------------------------------------------------------
(* C25: the level follows the authoritative magnitude *)

\* The level the magnitudes of an event call for: the ANSS magnitude decides
\* when the event has one, the initial ShakeAlert magnitude otherwise.
AuthoritativeLevel(m) ==
    LET deciding == IF m.ANSSmag # NoMag THEN m.ANSSmag ELSE m.initial_mag
    IN IF deciding < MagMapChange THEN MMISmall ELSE MMIAlert

\* C25: after ParseJSONContent has handled the first event of a process,
\* MMItoUse is the level of the ANSS magnitude when the event has one and the
\* level of the initial ShakeAlert magnitude only when it has none; an ANSS
\* magnitude at or above MagMapChange gives MMIAlert whatever the initial
\* magnitude is.
LevelFollowsAuthoritativeMagnitude ==
    (parse_pc \in {"returned", "raised"} /\ nparsed = 1)
        => MMItoUse = AuthoritativeLevel(msg)

-----------------------------------------------------------------------------
(* C27: the level of an event and the events parsed before it *)

\* The level a process that has parsed nothing yet applies to the event:
\* lines 579-584 run on the value MMItoUse has at import (line 27).
fresh_MMItoUse(m) == new_MMItoUse(MMIAlert, m)

\* C27: after any sequence of ParseJSONContent calls, the MMItoUse applied to
\* the current event is the one a fresh process applies to it; a large event
\* parsed after a small one uses MMIAlert.
LevelIndependentOfEarlierEvents ==
    parse_pc \in {"returned", "raised"} => MMItoUse = fresh_MMItoUse(msg)

-----------------------------------------------------------------------------
(* C26: xints in point_in_poly *)

\* The iteration just run (its index is one less than the next one's).
IterationRun == call_pc \in {"loop", "raised"} /\ call_ret.i > 0

\* C26: in every iteration of point_in_poly's loop, for every polygon and
\* point, the crossing test is not reached for a horizontal edge, an xints that
\* is read was assigned in that same iteration (never unassigned, never left
\* over from an earlier edge), and no division has a zero divisor.
XintsAssignedBeforeRead ==
    IterationRun =>
        /\ call_ret.tested => ~call_ret.horizontal
        /\ call_ret.read => call_ret.assigned_in = call_ret.i - 1
        /\ call_ret.divided => call_ret.divisor # 0
        /\ call_pc # "raised"

\* An edge has the point's height between its ends and is not vertical, so that
\* xints is read, after an earlier edge of the polygon was horizontal at the
\* point's height.
XintsWitness ==
    /\ IterationRun
    /\ call_ret.read
    /\ call_ret.assigned_in = call_ret.i - 1
    /\ \E j \in 1..(Len(call_args.poly) - 1) :
        /\ j < call_ret.i - 1
        /\ call_args.poly[j][2] = call_args.poly[j + 1][2]
        /\ call_args.poly[j][2] = call_args.y
        /\ call_args.x <= greater(call_args.poly[j][1], call_args.poly[j + 1][1])

\* The loop run edge by edge returns what point_in_poly returns.
EdgesAgreeWithPointInPoly ==
    call_pc = "done" =>
        point_in_poly(call_args.x, call_args.y, call_args.poly)
            = [ok |-> TRUE, inside |-> call_ret.inside]

-----------------------------------------------------------------------------
(* C28: what every returned city list satisfies *)

\* The slots of the category of slot k that come before it.
EarlierSlots(cats, k) == { i \in 1..(k - 1) : cats[i] = cats[k] }

\* C28: whenever getCityList returns, for any catalog, scan order and category
\* sequence, the selected cities are pairwise distinct, each has the category
\* of its slot in the catalog, the first slot of a category holds a city at the
\* least distance of all catalog cities of that category, and the distances of
\* the slots of one category do not decrease in slot order.
ReturnedListShape ==
    (cl_pc = "done" /\ city_result.ok) =>
        LET slots == select_cities(catalog, categories).nearest_cities
            sel == city_result.cities
        IN /\ \A i, j \in 1..Len(slots) : i # j => slots[i] # slots[j]
           /\ Len(sel) = Len(categories)
           /\ \A k \in 1..Len(sel) :
                /\ sel[k].name = slots[k]
                /\ catalog[sel[k].name].category = categories[k]
                /\ sel[k].category = categories[k]
                /\ sel[k].distance = catalog[sel[k].name].dist
                /\ EarlierSlots(categories, k) = {} =>
                      \A c \in CitiesOf(categories[k]) : sel[k].distance <= catalog[c].dist
                /\ \A i \in EarlierSlots(categories, k) : sel[i].distance <= sel[k].distance

\* A list is returned for a category asked twice, from a catalog whose first
\* city is not the nearest, in which the nearest unselected city is passed over.
ReturnedListWitness ==
    /\ cl_pc = "done"
    /\ city_result.ok
    /\ categories = <<"B", "B">>
    /\ catalog[1].category = "B"
    /\ \E c \in CitiesOf("B") : c > 1 /\ catalog[c].dist < catalog[1].dist
    /\ ~CityListNearest

-----------------------------------------------------------------------------
(* C29: the name and the geometry of the exported initial polygon *)

\* The levels of the parsed contours whose ring is the exported geometry.
LevelsOfGeometry(SAMessageValues, geometry) ==
    { SAMessageValues.initial.MMIlist[i][1] : i \in
        { i \in 1..Len(SAMessageValues.initial.MMIlist) :
            geometry = <<latlon_to_numeric(SAMessageValues.initial.MMIlist[i][2], TRUE)>> } }

\* C29: in the exported initial-alert feature collection the level in the
\* polygon feature's name "Initial MMI n" is the level of the contour whose
\* geometry is exported, the display contour of initial_polygonNumericList,
\* for every initial contour list and magnitude.
InitialNameMatchesGeometry ==
    call_pc = "done" =>
        /\ call_ret.geometry = <<call_args.SAMessageValues.initial.polygonNumericList>>
        /\ call_ret.name = <<"Initial MMI", call_args.SAMessageValues.initial.MMItoShow>>

\* The part that holds: the exported geometry is the display contour's.
InitialGeometryIsDisplayContour ==
    call_pc = "done" =>
        /\ call_ret.geometry = <<call_args.SAMessageValues.initial.polygonNumericList>>
        /\ call_args.SAMessageValues.initial.MMItoShow
              \in LevelsOfGeometry(call_args.SAMessageValues, call_ret.geometry)

-----------------------------------------------------------------------------
(* C30: the list of Get_polygons meets getIntensityLevel's precondition *)

GreatestToLeast(MMIlist) ==
    \A i, j \in 1..Len(MMIlist) : i < j => MMIlist[i][1] >= MMIlist[j][1]

\* The list holds the contours of the message, each as often as the message.
SameContours(MMIlist, raw) ==
    LET pairs == [i \in 1..Len(raw) |-> <<mmi_truncate(raw[i].mmi), raw[i].polygon>>]
    IN /\ Len(MMIlist) = Len(raw)
       /\ \A e \in Range(pairs) :
            Cardinality({ i \in 1..Len(pairs) : pairs[i] = e })
                = Cardinality({ i \in 1..Len(MMIlist) : MMIlist[i] = e })

GreatestOf(S) == CHOOSE m \in S : \A n \in S : m >= n

LevelsAt(indices) == { arg_MMIlist[i][1] : i \in indices }

=============================================================================
